---- MODULE Spec2Model ----
(***************************************************************************)
(* Birth-death tree simulation and Yule model fitting of                   *)
(* dendropy/model/birthdeath.py, and empirical_cdf of                      *)
(* dendropy/mathlib/statistics.py.                                         *)
(*                                                                         *)
(* The specifications of this module, one per function:                    *)
(*   SpecFit  : fit_pure_birth_model, a pure function of its arguments.    *)
(*   SpecBD   : birth_death_tree, the continuous-time simulator            *)
(*              (SpecBDTrees adds runs to a longer max_time).              *)
(*   SpecPSM  : ProtractedSpeciationModel.generate_sample                  *)
(*              (SpecPSMLongRun: one run to a longer max_time).            *)
(*   SpecUPB  : uniform_pure_birth_tree.                                   *)
(*   SpecDBD  : discrete_birth_death_tree.                                 *)
(*   SpecArgs : the argument checks of both birth-death simulators.        *)
(*   SpecCdf  : empirical_cdf.                                             *)
(* Random draws (waiting times, uniform draws, choices) are inputs chosen  *)
(* nondeterministically from small sets.  Real-valued times are modelled   *)
(* as integers; a quotient is kept as a <<numerator, denominator>> pair.   *)
(***************************************************************************)
EXTENDS Integers, Sequences, FiniteSets, TLC

VARIABLES
    \* ---- fit_pure_birth_model
    fit_pc,                 \* "call", "returned", "raised"
    internal_node_ages,     \* kwargs["internal_node_ages"]
    ignore_likelihood_calculation_failure,  \* the keyword argument
    fit_result,             \* the returned dictionary, or the exception
    ages_as_passed,         \* the caller's list as it was before the first call
    fit_history,            \* the outcome of every call made so far
    \* ---- birth_death_tree: keyword arguments
    birth_rate, death_rate,
    ntax,                   \* kwargs.get('ntax') (or the namespace size)
    gsa_ntax,
    max_time,
    repeat_until_success,
    tree_given,             \* "tree" in kwargs
    taxon_namespace,        \* taxon_namespace: absent, the tree's own, another
    \* ---- birth_death_tree: locals
    bd_pc,                  \* position in the function
    terminate_at_full_tree,
    parent_node,            \* node -> its parent node, 0 for none
    edge_length,            \* node -> length of the edge above it
    seed_node,              \* tree.seed_node
    num_nodes,              \* number of node objects created so far
    leaf_nodes,             \* list of live leaves
    curr_num_leaves,
    total_time,
    targetted_time_slices,
    extinct_tips,
    selected_slice,         \* index of the selected slice, 0 for none
    r_draw,                 \* r = rng.random() * total_duration_at_target_n_tax
    stop_at_size_tree,      \* what stopping at the first slice recorded returns
    restarted,              \* the last pass of the loop body took lines 230-235
    waiting_time,           \* the last value of rng.expovariate(rate_of_any_event)
    slice_num_nodes,        \* the number of nodes created when each slice was recorded
    \* ---- ProtractedSpeciationModel: rates and keyword arguments
    psm_rates,              \* the five event rates, in event type order
    psm_max_time,
    is_initial_species_incipient,
    is_retry_on_total_extinction,
    max_retries,
    \* ---- ProtractedSpeciationModel: generate_sample
    psm_pc,
    num_retries,
    num_runs,               \* calls of _run_protracted_speciation_process so far
    \* ---- ProtractedSpeciationModel: the model object and its PSM tree
    current_time,
    current_lineage_index,
    current_node_index,
    current_full_species_lineages,
    current_incipient_species_lineages,
    all_lineages,           \* self._all_lineages: lineage records, by index
    psm_parent_node,
    psm_edge_length,
    psm_seed_node,
    pruned_tree,            \* the tree built by _assemble_pruned_tree
    \* ---- uniform_pure_birth_tree
    upb_pc,
    upb_taxon_namespace,    \* the taxa of the namespace, in order: <<1, ..., N>>
    upb_birth_rate,
    upb_parent_node,
    upb_edge_length,
    upb_num_nodes,
    upb_leaf_nodes,
    upb_taxon,              \* node -> leaf.taxon, None while unassigned
    upb_waiting_times,      \* the sum of the waiting times drawn so far
    \* ---- discrete_birth_death_tree: keyword arguments
    dbd_birth_rate, dbd_death_rate,
    dbd_ntax,               \* target_num_taxa
    dbd_max_time,           \* target_num_gens
    dbd_repeat_until_success,
    dbd_tree_given,         \* "tree" in kwargs
    dbd_taxon_namespace,    \* taxon_namespace: absent, the tree's own, another
    \* ---- discrete_birth_death_tree: the tree and the locals
    dbd_pc,
    dbd_parent_node,
    dbd_edge_length,
    dbd_seed_node,
    dbd_num_nodes,
    dbd_leaf_nodes,
    dbd_idx,                \* position of the for loop in leaf_nodes
    dbd_num_gens,
    dbd_gens_run,           \* generations run since the call
    dbd_gens_to_add,
    dbd_seen_num_gens,      \* num_gens at each test of the growth loop
    dbd_last_lineage_died,  \* the last draw was the death of the tree's only leaf
    dbd_u,                  \* u, the last value of rng.uniform(0, 1)
    \* ---- empirical_cdf
    cdf_pc,
    cdf_values,             \* the argument values
    cdf_v,                  \* the argument v
    cdf_result              \* the proportion returned, <<count, len(values)>>

fit_vars == <<fit_pc, internal_node_ages, ignore_likelihood_calculation_failure, fit_result,
              ages_as_passed, fit_history>>

bd_kwargs == <<birth_rate, death_rate, ntax, gsa_ntax, max_time, repeat_until_success,
               tree_given, taxon_namespace>>

bd_tree == <<parent_node, edge_length, seed_node, num_nodes>>

bd_locals == <<bd_pc, terminate_at_full_tree, leaf_nodes, curr_num_leaves, total_time,
               targetted_time_slices, extinct_tips, selected_slice, r_draw,
               stop_at_size_tree, restarted, waiting_time, slice_num_nodes>>

bd_vars == <<bd_kwargs, bd_tree, bd_locals>>

psm_kwargs == <<psm_rates, psm_max_time, is_initial_species_incipient,
                is_retry_on_total_extinction, max_retries>>

psm_model == <<current_time, current_lineage_index, current_node_index,
               current_full_species_lineages, current_incipient_species_lineages,
               all_lineages, psm_parent_node, psm_edge_length, psm_seed_node>>

psm_vars == <<psm_kwargs, psm_pc, num_retries, num_runs, psm_model, pruned_tree>>

upb_vars == <<upb_pc, upb_taxon_namespace, upb_birth_rate, upb_parent_node,
              upb_edge_length, upb_num_nodes, upb_leaf_nodes, upb_taxon,
              upb_waiting_times>>

dbd_kwargs == <<dbd_birth_rate, dbd_death_rate, dbd_ntax, dbd_max_time,
                dbd_repeat_until_success, dbd_tree_given, dbd_taxon_namespace>>

dbd_vars == <<dbd_kwargs, dbd_pc, dbd_parent_node, dbd_edge_length, dbd_seed_node,
              dbd_num_nodes, dbd_leaf_nodes, dbd_idx, dbd_num_gens, dbd_gens_run,
              dbd_gens_to_add, dbd_seen_num_gens, dbd_last_lineage_died, dbd_u>>

cdf_vars == <<cdf_pc, cdf_values, cdf_v, cdf_result>>

vars == <<fit_vars, bd_vars, psm_vars, upb_vars, dbd_vars, cdf_vars>>

\* What each function leaves alone: the state of the other functions.
non_fit_vars == <<bd_vars, psm_vars, upb_vars, dbd_vars, cdf_vars>>

non_bd_vars == <<fit_vars, psm_vars, upb_vars, dbd_vars, cdf_vars>>

non_psm_vars == <<fit_vars, bd_vars, upb_vars, dbd_vars, cdf_vars>>

non_upb_vars == <<fit_vars, bd_vars, psm_vars, dbd_vars, cdf_vars>>

non_dbd_vars == <<fit_vars, bd_vars, psm_vars, upb_vars, cdf_vars>>

non_cdf_vars == <<fit_vars, bd_vars, psm_vars, upb_vars, dbd_vars>>

\* The value None of the source.
None == -1

(***************************************************************************)
(* Helpers over sequences.                                                 *)
(***************************************************************************)
RECURSIVE SumSeq(_)
SumSeq(s) == IF s = <<>> THEN 0 ELSE Head(s) + SumSeq(Tail(s))

Range(s) == {s[i] : i \in DOMAIN s}

SetMax(S) == CHOOSE m \in S : \A n \in S : n <= m

SetMin(S) == CHOOSE m \in S : \A n \in S : m <= n

\* All sequences over S of length lo..hi.
SeqsOf(S, lo, hi) == UNION {[1..n -> S] : n \in lo..hi}

\* sorted(s, reverse=True): insertion of the head into the sorted tail.
RECURSIVE InsertDesc(_, _)
InsertDesc(v, s) ==
    IF s = <<>> THEN <<v>>
    ELSE IF v >= Head(s) THEN <<v>> \o s
    ELSE <<Head(s)>> \o InsertDesc(v, Tail(s))

SortedDesc_AsPassed(s) == s

RECURSIVE SortedDesc(_)
SortedDesc(s) == IF s = <<>> THEN <<>> ELSE InsertDesc(Head(s), SortedDesc(Tail(s)))

(***************************************************************************)
(* fit_pure_birth_model                                                    *)
(***************************************************************************)
\* Bounds of the inputs, and of the calls made with the same arguments.
MaxAges == 3
MaxAge == 3
MaxFitCalls == 2

\* math.log(v) for v = num/den with den > 0: a ValueError (math domain
\* error) for v <= 0, a finite real otherwise.
MathLogFails(num, den) == num <= 0

\* The handler of the ValueError raised inside the try block: what the
\* flag decides.
LikelihoodFailureRaises_Always(flag) == TRUE

LikelihoodFailureRaises(flag) == flag

\* The quantities lo, up, t1, t2, t3 computed from the ages.
FitTerms_LoFromSt2(ages) ==
    LET x == SortedDesc(ages)
        nvec == [i \in 1..Len(x) |-> i + 1]
        up == SetMax({nvec[i] : i \in {j \in 1..Len(x) : x[j] >= 0}})
    IN [lo |-> up, up |-> up, t1 |-> 0, t2 |-> up * x[1], t3 |-> 0]

FitTerms_SliceFromZero(ages) ==
    LET x == SortedDesc(ages)
        st1 == x[1]
        nvec == [i \in 1..Len(x) |-> i + 1]
        nv == <<st1>> \o SelectSeq(x, LAMBDA i : i < st1 /\ i >= 0)
        lo == SetMax({nvec[i] : i \in {j \in 1..Len(x) : x[j] >= st1}})
        up == SetMax({nvec[i] : i \in {j \in 1..Len(x) : x[j] >= 0}})
        hi == IF up - lo + 1 <= Len(nv) THEN up - lo + 1 ELSE Len(nv)
    IN [lo |-> lo, up |-> up, t1 |-> up - lo,
        t2 |-> lo * nv[1], t3 |-> SumSeq(SubSeq(nv, 1, hi))]

FitTerms(ages) ==
    LET x == SortedDesc(ages)
        st1 == x[1]
        st2 == 0
        nvec == [i \in 1..Len(x) |-> i + 1]
        nv0 == SelectSeq(x, LAMBDA i : i < st1 /\ i >= st2)
        lo == SetMax({nvec[i] : i \in {j \in 1..Len(x) : x[j] >= st1}})
        up == SetMax({nvec[i] : i \in {j \in 1..Len(x) : x[j] >= st2}})
        nv1 == <<st1>> \o nv0
        nv == [i \in 1..Len(nv1) |-> nv1[i] - st2]
        hi == IF up - lo + 1 <= Len(nv) THEN up - lo + 1 ELSE Len(nv)
    IN [lo |-> lo, up |-> up, t1 |-> up - lo,
        t2 |-> lo * nv[1], t3 |-> SumSeq(SubSeq(nv, 2, hi))]

NegInf == [kind |-> "neg_inf", lo |-> 0, up |-> 0, smax |-> <<0, 1>>]

\* The outcome of one call: the result dictionary or the exception raised.
fit_pure_birth_model(ages, flag) ==
    IF ages = <<>> THEN [status |-> "IndexError", birth_rate |-> <<0, 1>>, log_likelihood |-> NegInf]
    ELSE
    LET t == FitTerms(ages)
        den == t.t2 + t.t3
        smax == <<t.t1, den>>
    IN IF den = 0
       THEN [status |-> "ZeroDivisionError", birth_rate |-> <<0, 1>>, log_likelihood |-> NegInf]
       ELSE IF MathLogFails(t.t1, den)
            THEN IF LikelihoodFailureRaises(flag)
                 THEN [status |-> "ValueError", birth_rate |-> smax, log_likelihood |-> NegInf]
                 ELSE [status |-> "returned", birth_rate |-> smax, log_likelihood |-> NegInf]
            ELSE [status |-> "returned", birth_rate |-> smax,
                  log_likelihood |-> [kind |-> "finite", lo |-> t.lo, up |-> t.up, smax |-> smax]]

NoFitResult == [status |-> "none", birth_rate |-> <<0, 1>>, log_likelihood |-> NegInf]

FitInit ==
    /\ fit_pc = "call"
    /\ internal_node_ages \in SeqsOf(0..MaxAge, 0, MaxAges)
    /\ ignore_likelihood_calculation_failure \in BOOLEAN
    /\ fit_result = NoFitResult
    /\ ages_as_passed = internal_node_ages
    /\ fit_history = <<>>

FitIdle ==
    /\ fit_pc = "idle"
    /\ internal_node_ages = <<>>
    /\ ignore_likelihood_calculation_failure = FALSE
    /\ fit_result = NoFitResult
    /\ ages_as_passed = <<>>
    /\ fit_history = <<>>

FitCall ==
    /\ fit_pc = "call"
    /\ fit_result' = fit_pure_birth_model(internal_node_ages, ignore_likelihood_calculation_failure)
    /\ fit_pc' = IF fit_result'.status = "returned" THEN "returned" ELSE "raised"
    /\ fit_history' = Append(fit_history, fit_result')
    /\ UNCHANGED <<internal_node_ages, ignore_likelihood_calculation_failure, ages_as_passed>>
    /\ UNCHANGED non_fit_vars

\* The caller calls again with the same keyword arguments: sorted() has
\* left the list as it was and the function keeps no state between calls.
FitCallAgain ==
    /\ fit_pc \in {"returned", "raised"}
    /\ Len(fit_history) < MaxFitCalls
    /\ fit_result' = fit_pure_birth_model(internal_node_ages, ignore_likelihood_calculation_failure)
    /\ fit_pc' = IF fit_result'.status = "returned" THEN "returned" ELSE "raised"
    /\ fit_history' = Append(fit_history, fit_result')
    /\ UNCHANGED <<internal_node_ages, ignore_likelihood_calculation_failure, ages_as_passed>>
    /\ UNCHANGED non_fit_vars

(***************************************************************************)
(* The tree collaborator (dendropy.Tree / dendropy.Node): a tree is the    *)
(* parent map of its nodes, the edge lengths and the seed node.            *)
(***************************************************************************)
\* Bound on the births of one run; every birth creates two nodes.
MaxBirths == 2

MaxNodes == 1 + 2 * MaxBirths

Nodes == 1..MaxNodes

NoParents == [n \in Nodes |-> 0]

Children(par, n) == {c \in DOMAIN par : par[c] = n}

RECURSIVE RootOf(_, _)
RootOf(par, n) == IF par[n] = 0 THEN n ELSE RootOf(par, par[n])

TreeNodes(par, seed) == {n \in DOMAIN par : RootOf(par, n) = seed}

\* tree.leaf_nodes(), as a set.
TreeLeafNodes(par, seed) == {n \in TreeNodes(par, seed) : Children(par, n) = {}}

\* The nodes below n in preorder, children in the order they were added.
RECURSIVE PreorderFrom(_, _, _)
PreorderFrom(par, n, todo) ==
    \* todo: the children of n not yet visited
    IF todo = {} THEN <<>>
    ELSE LET ch == SetMin(todo)
         IN <<ch>> \o PreorderFrom(par, ch, Children(par, ch))
                  \o PreorderFrom(par, n, todo \ {ch})

\* tree.leaf_nodes(), as the list the collaborator returns.
LeafNodesInOrder(par, seed) ==
    SelectSeq(<<seed>> \o PreorderFrom(par, seed, Children(par, seed)),
              LAMBDA n : Children(par, n) = {})

\* tree.prune_subtree(nd, suppress_unifurcations=False)
prune_subtree(par, nd) == [par EXCEPT ![nd] = 0]

\* tree.suppress_unifurcations(): every node with exactly one child is
\* spliced out, its edge length added to the child's; a unifurcating seed
\* node hands the root to its child.
RECURSIVE suppress_unifurcations(_)
suppress_unifurcations(t) ==
    LET U == {n \in TreeNodes(t.parent, t.seed) : Cardinality(Children(t.parent, n)) = 1}
    IN IF U = {} THEN t
       ELSE LET nd == SetMax(U)
                ch == CHOOSE c \in Children(t.parent, nd) : TRUE
            IN suppress_unifurcations(
                  [parent |-> [t.parent EXCEPT ![ch] = t.parent[nd], ![nd] = 0],
                   length |-> [t.length EXCEPT ![ch] = t.length[ch] + t.length[nd]],
                   seed |-> IF t.seed = nd THEN ch ELSE t.seed])

\* list.remove(x) inside try/except: the first occurrence goes, if any.
RemoveFromList_Keep(s, x) == s

RemoveFromList(s, x) ==
    IF \E i \in DOMAIN s : s[i] = x
    THEN LET k == SetMin({i \in DOMAIN s : s[i] = x})
         IN SubSeq(s, 1, k - 1) \o SubSeq(s, k + 1, Len(s))
    ELSE s

(***************************************************************************)
(* The weighted event selector (dendropy.calculate.probability).           *)
(* The draw u * total is kept in half units, draw \in 0..2*total-1.        *)
(***************************************************************************)
RECURSIVE FirstBucket(_, _, _, _)
FirstBucket(weights, draw, i, cum) ==
    IF i >= Len(weights) THEN Len(weights)
    ELSE IF 2 * (cum + weights[i]) >= draw THEN i
    ELSE FirstBucket(weights, draw, i + 1, cum + weights[i])

\* The first bucket whose cumulative sum meets or exceeds the scaled draw.
weighted_index_choice(weights, draw) == FirstBucket(weights, draw, 1, 0)

Draws(weights) == 0..(2 * SumSeq(weights) - 1)

(***************************************************************************)
(* birth_death_tree                                                        *)
(***************************************************************************)
\* Bounds of the keyword arguments and of the random draws.
MaxNtax == 2
MaxGsaExtra == 2
MaxMaxTime == 1
MaxWaitingTime == 2
MaxEdgeLength == 2

\* rng.expovariate: a positive waiting time.
WaitingTimes == 1..MaxWaitingTime

\* Rates: an event type is impossible (0) or possible (1); with the
\* standard deviations at their default 0 every node keeps the rates of
\* the call.
Rates == {0, 1}

OptionalOf(S) == {None} \cup S

\* The rate vector: birth rate then death rate of every live leaf.
RECURSIVE EventRates(_, _, _)
EventRates(leaves, b, d) ==
    IF leaves = <<>> THEN <<>> ELSE <<b, d>> \o EventRates(Tail(leaves), b, d)

\* The snapshot taken with a time slice: every live leaf's edge and length.
EdgeAndStartLength_ZeroLength(leaves, len) == [i \in DOMAIN leaves |-> <<leaves[i], 0>>]

EdgeAndStartLength(leaves, len) == [i \in DOMAIN leaves |-> <<leaves[i], len[leaves[i]]>>]

\* nd.edge.length += waiting_time for every live leaf.
AddWaitingTime(len, leaves, w) ==
    [n \in Nodes |-> IF n \in Range(leaves) THEN len[n] + w ELSE len[n]]

\* What the loop does when the last live leaf has died (lines 224-235).
TotalExtinctionOutcome_BreakWithoutSlice(gsa, slices, repeat) ==
    IF gsa # None THEN "break"
    ELSE IF ~repeat THEN "raise"
    ELSE "restart"

TotalExtinctionOutcome(gsa, slices, repeat) ==
    IF gsa # None /\ Len(slices) > 0 THEN "break"
    ELSE IF ~repeat THEN "raise"
    ELSE "restart"

\* How the caller passes taxon_namespace next to tree.
NamespaceKwargs == {"absent", "of_tree", "other"}

\* The tree a caller passes with the keyword tree: a root with two leaves.
SuppliedParents(NodeSet) == [n \in NodeSet |-> IF n \in {2, 3} THEN 1 ELSE 0]

SuppliedLengths(NodeSet) == [n \in NodeSet |-> IF n \in {2, 3} THEN 1 ELSE 0]

\* No first slice has been recorded.
NoTreeView == [nodes |-> {}, parent |-> <<>>, length |-> <<>>, seed |-> 0]

\* The calls whose max_time is drawn from max_times.
BDInitFor(max_times) ==
    /\ bd_pc = "call"
    /\ birth_rate \in Rates
    /\ death_rate \in Rates
    /\ ntax \in OptionalOf(1..MaxNtax)
    /\ gsa_ntax \in OptionalOf(1..(MaxNtax + MaxGsaExtra))
    /\ max_time \in max_times
    /\ repeat_until_success \in BOOLEAN
    /\ tree_given \in BOOLEAN
    /\ taxon_namespace \in NamespaceKwargs
    /\ taxon_namespace = "of_tree" => tree_given
    /\ taxon_namespace # "absent" => ntax # None
    /\ terminate_at_full_tree = FALSE
    /\ parent_node = IF tree_given THEN SuppliedParents(Nodes) ELSE NoParents
    /\ edge_length = IF tree_given THEN SuppliedLengths(Nodes) ELSE [n \in Nodes |-> 0]
    /\ seed_node = IF tree_given THEN 1 ELSE 0
    /\ num_nodes = IF tree_given THEN 3 ELSE 0
    /\ leaf_nodes = <<>>
    /\ curr_num_leaves = 0
    /\ total_time = 0
    /\ targetted_time_slices = <<>>
    /\ extinct_tips = <<>>
    /\ selected_slice = 0
    /\ r_draw = 0
    /\ stop_at_size_tree = NoTreeView
    /\ restarted = FALSE
    /\ waiting_time = None
    /\ slice_num_nodes = <<>>

BDInit == BDInitFor(OptionalOf(1..MaxMaxTime))

\* Calls that stop on max_time alone, long enough for several events.
MaxLongTime == 4

BDInitMaxTimeOnly ==
    /\ BDInitFor({MaxLongTime})
    /\ ntax = None
    /\ gsa_ntax = None
    /\ ~repeat_until_success
    /\ ~tree_given

BDIdle ==
    /\ bd_pc = "idle"
    /\ birth_rate = 0
    /\ death_rate = 0
    /\ ntax = None
    /\ gsa_ntax = None
    /\ max_time = None
    /\ repeat_until_success = FALSE
    /\ tree_given = FALSE
    /\ taxon_namespace = "absent"
    /\ terminate_at_full_tree = FALSE
    /\ parent_node = NoParents
    /\ edge_length = [n \in Nodes |-> 0]
    /\ seed_node = 0
    /\ num_nodes = 0
    /\ leaf_nodes = <<>>
    /\ curr_num_leaves = 0
    /\ total_time = 0
    /\ targetted_time_slices = <<>>
    /\ extinct_tips = <<>>
    /\ selected_slice = 0
    /\ r_draw = 0
    /\ stop_at_size_tree = NoTreeView
    /\ restarted = FALSE
    /\ waiting_time = None
    /\ slice_num_nodes = <<>>

\* Lines 95-143: the arguments are checked, the tree is created.
ConfigurationError_GsaAtMostTarget ==
    IF ntax = None THEN gsa_ntax # None \/ max_time = None
    ELSE gsa_ntax # None /\ gsa_ntax <= ntax

ConfigurationError ==
    IF ntax = None THEN gsa_ntax # None \/ max_time = None
    ELSE gsa_ntax # None /\ gsa_ntax < ntax

\* Lines 119-122: tree together with a namespace that is not the tree's.
TreeAndNamespace_Ignored == FALSE

TreeAndNamespace == tree_given /\ taxon_namespace = "other"

BDSetup ==
    /\ bd_pc = "call"
    /\ IF ConfigurationError
       THEN /\ bd_pc' = "ValueError"
            /\ UNCHANGED <<gsa_ntax, terminate_at_full_tree, bd_tree, leaf_nodes, curr_num_leaves>>
       ELSE IF TreeAndNamespace
       THEN \* lines 110-112 have run before the error of line 122
            /\ bd_pc' = "ValueError"
            /\ terminate_at_full_tree' = (ntax # None /\ gsa_ntax = None)
            /\ gsa_ntax' = IF ntax # None /\ gsa_ntax = None THEN 1 + ntax ELSE gsa_ntax
            /\ UNCHANGED <<bd_tree, leaf_nodes, curr_num_leaves>>
       ELSE /\ bd_pc' = "head"
            /\ terminate_at_full_tree' = (ntax # None /\ gsa_ntax = None)
            /\ gsa_ntax' = IF ntax # None /\ gsa_ntax = None THEN 1 + ntax ELSE gsa_ntax
            /\ seed_node' = 1
            /\ num_nodes' = IF tree_given THEN num_nodes ELSE 1
            /\ leaf_nodes' = LeafNodesInOrder(parent_node, 1)
            /\ curr_num_leaves' = Len(LeafNodesInOrder(parent_node, 1))
            /\ UNCHANGED <<parent_node, edge_length>>
    /\ UNCHANGED <<birth_rate, death_rate, ntax, max_time, repeat_until_success, tree_given,
                   taxon_namespace, total_time, targetted_time_slices, extinct_tips,
                   selected_slice, r_draw, stop_at_size_tree, restarted, waiting_time,
                   slice_num_nodes>>
    /\ UNCHANGED non_bd_vars

\* Lines 145-151: the tests at the head of the growth loop.
LoopExits ==
    IF gsa_ntax = None THEN total_time >= max_time ELSE curr_num_leaves >= gsa_ntax

BDLoopHead ==
    /\ bd_pc = "head"
    /\ bd_pc' = IF LoopExits THEN "select" ELSE "body"
    /\ UNCHANGED <<bd_kwargs, bd_tree, terminate_at_full_tree, leaf_nodes, curr_num_leaves,
                   total_time, targetted_time_slices, extinct_tips, selected_slice, r_draw,
                   stop_at_size_tree, restarted, waiting_time, slice_num_nodes>>
    /\ UNCHANGED non_bd_vars

\* Line 172: expovariate of a zero rate divides by zero.
BDNoEventPossible ==
    /\ bd_pc = "body"
    /\ SumSeq(EventRates(leaf_nodes, birth_rate, death_rate)) = 0
    /\ bd_pc' = "ZeroDivisionError"
    /\ UNCHANGED <<bd_kwargs, bd_tree, terminate_at_full_tree, leaf_nodes, curr_num_leaves,
                   total_time, targetted_time_slices, extinct_tips, selected_slice, r_draw,
                   stop_at_size_tree, restarted, waiting_time, slice_num_nodes>>
    /\ UNCHANGED non_bd_vars

\* A tree as its caller sees it: the nodes under the seed node, their
\* parents and their edge lengths.
TreeView(par, len, seed) ==
    [nodes |-> TreeNodes(par, seed),
     parent |-> [n \in TreeNodes(par, seed) |-> par[n]],
     length |-> [n \in TreeNodes(par, seed) |-> len[n]],
     seed |-> seed]

SliceHeads(slice) == {slice.edge_and_start_length[i][1] : i \in DOMAIN slice.edge_and_start_length}

SliceLength(slice, n) ==
    LET i == CHOOSE k \in DOMAIN slice.edge_and_start_length : slice.edge_and_start_length[k][1] = n
    IN slice.edge_and_start_length[i][2]

\* Lines 255-268: what grew below the edges of the selected slice is pruned.
RestoredParents_NoPrune(par, slice) == par

RestoredParents(par, slice) ==
    [n \in Nodes |-> IF par[n] \in SliceHeads(slice) THEN 0 ELSE par[n]]

RestoredExtinctTips_KeepAll(par, tips, slice) == tips

RestoredExtinctTips(par, tips, slice) ==
    SelectSeq(tips, LAMBDA x : x \notin SliceHeads(slice) /\ par[x] \notin SliceHeads(slice))

RestoredLengths(len, slice) ==
    [n \in Nodes |-> IF n \in SliceHeads(slice)
                     THEN SliceLength(slice, n) + slice.waiting_time
                     ELSE len[n]]

\* Lines 276-285: every recorded extinct tip is pruned, together with the
\* ancestors it is the only child of.
RECURSIVE ClimbUnifurcations(_, _)
ClimbUnifurcations(par, nd) ==
    IF par[nd] # 0 /\ Cardinality(Children(par, par[nd])) = 1
    THEN ClimbUnifurcations(par, par[nd])
    ELSE nd

PruneExtinctTips_KeepTips(par, tips) == par

RECURSIVE PruneExtinctTips(_, _)
PruneExtinctTips(par, tips) ==
    IF tips = <<>> THEN par
    ELSE LET nd == ClimbUnifurcations(par, Head(tips))
         IN PruneExtinctTips(IF par[nd] # 0 THEN prune_subtree(par, nd) ELSE par, Tail(tips))

\* Lines 240-290 applied to the slice just recorded: the tree returned
\* when the loop breaks at that slice (line 183).
StopAtSizeTree(par, len, seed, tips, slice) ==
    LET t == suppress_unifurcations(
                [parent |-> PruneExtinctTips(RestoredParents(par, slice),
                                             RestoredExtinctTips(par, tips, slice)),
                 length |-> RestoredLengths(len, slice),
                 seed |-> seed])
    IN TreeView(t.parent, t.length, t.seed)

\* The bound of the edge lengths followed: no edge of a run that stops on
\* max_time alone needs to outgrow max_time.
EdgeLengthCap ==
    IF max_time # None /\ max_time > MaxEdgeLength THEN max_time ELSE MaxEdgeLength

\* Lines 153-236: one pass of the loop body, for the waiting time w and
\* the scaled uniform draw of the event selection.
BDLoopBody(w, draw) ==
    LET event_rates == EventRates(leaf_nodes, birth_rate, death_rate)
        record == gsa_ntax # None /\ curr_num_leaves = ntax
        slices == IF record
                  THEN Append(targetted_time_slices,
                              [waiting_time |-> w,
                               edge_and_start_length |-> EdgeAndStartLength(leaf_nodes, edge_length)])
                  ELSE targetted_time_slices
        len1 == AddWaitingTime(edge_length, leaf_nodes, w)
        idx == weighted_index_choice(event_rates, draw)
        nd == leaf_nodes[(idx + 1) \div 2]
        birth_event == idx % 2 = 1
        remaining == RemoveFromList(leaf_nodes, nd)
        c1 == num_nodes + 1
        c2 == num_nodes + 2
    IN
    /\ bd_pc = "body"
    /\ SumSeq(event_rates) > 0
    /\ \A n \in Range(leaf_nodes) : edge_length[n] + w <= EdgeLengthCap
    /\ targetted_time_slices' = slices
    /\ stop_at_size_tree' =
          IF record /\ targetted_time_slices = <<>>
          THEN StopAtSizeTree(parent_node, edge_length, seed_node, extinct_tips, slices[1])
          ELSE stop_at_size_tree
    /\ IF record /\ terminate_at_full_tree
       THEN /\ bd_pc' = "select"
            /\ restarted' = FALSE
            /\ UNCHANGED <<bd_tree, leaf_nodes, curr_num_leaves, total_time, extinct_tips>>
       ELSE IF ~(max_time = None \/ total_time + w <= max_time)
       THEN \* the event falls beyond max_time: it is not applied
            /\ bd_pc' = "head"
            /\ restarted' = FALSE
            /\ edge_length' = len1
            /\ total_time' = total_time + w
            /\ UNCHANGED <<parent_node, seed_node, num_nodes, leaf_nodes, curr_num_leaves, extinct_tips>>
       ELSE IF birth_event
       THEN /\ c2 <= MaxNodes
            /\ bd_pc' = "head"
            /\ restarted' = FALSE
            /\ parent_node' = [parent_node EXCEPT ![c1] = nd, ![c2] = nd]
            /\ edge_length' = [len1 EXCEPT ![c1] = 0, ![c2] = 0]
            /\ num_nodes' = c2
            /\ leaf_nodes' = remaining \o <<c1, c2>>
            /\ curr_num_leaves' = curr_num_leaves - 1 + 2
            /\ total_time' = total_time + w
            /\ UNCHANGED <<seed_node, extinct_tips>>
       ELSE IF curr_num_leaves - 1 > 0
       THEN /\ bd_pc' = "head"
            /\ restarted' = FALSE
            /\ edge_length' = len1
            /\ leaf_nodes' = remaining
            /\ curr_num_leaves' = curr_num_leaves - 1
            /\ extinct_tips' = Append(extinct_tips, nd)
            /\ total_time' = total_time + w
            /\ UNCHANGED <<parent_node, seed_node, num_nodes>>
       ELSE LET outcome == TotalExtinctionOutcome(gsa_ntax, slices, repeat_until_success)
            IN IF outcome = "restart"
               THEN \* lines 230-235; the nodes pruned from the seed node are
                    \* referenced by nothing any more and are forgotten
                    /\ bd_pc' = "head"
                    /\ restarted' = TRUE
                    /\ leaf_nodes' = <<seed_node>>
                    /\ curr_num_leaves' = 1
                    /\ parent_node' = NoParents
                    /\ edge_length' = [n \in Nodes |-> IF n = seed_node THEN len1[n] ELSE 0]
                    /\ num_nodes' = 1
                    /\ extinct_tips' = <<>>
                    /\ total_time' = 0
                    /\ UNCHANGED seed_node
               ELSE /\ bd_pc' = IF outcome = "break" THEN "select"
                                ELSE "TreeSimTotalExtinctionException"
                    /\ restarted' = FALSE
                    /\ edge_length' = len1
                    /\ leaf_nodes' = remaining
                    /\ curr_num_leaves' = curr_num_leaves - 1
                    /\ total_time' = total_time + w
                    /\ UNCHANGED <<parent_node, seed_node, num_nodes, extinct_tips>>
    /\ waiting_time' = w
    /\ slice_num_nodes' = IF record THEN Append(slice_num_nodes, num_nodes)
                          ELSE slice_num_nodes
    /\ UNCHANGED <<bd_kwargs, terminate_at_full_tree, selected_slice, r_draw>>
    /\ UNCHANGED non_bd_vars

\* Lines 244-251: the loop over the slices that subtracts each duration
\* from r; returns the index left in selected_slice, 0 for None.
RECURSIVE SelectFrom(_, _, _, _)
SelectFrom(slices, r, i, sel) ==
    IF i > Len(slices) THEN sel
    ELSE LET r1 == r - slices[i].waiting_time
         IN SelectFrom(slices, r1, i + 1, IF r1 < 0 THEN i ELSE sel)

RECURSIVE TotalDuration(_)
TotalDuration(slices) ==
    IF slices = <<>> THEN 0 ELSE Head(slices).waiting_time + TotalDuration(Tail(slices))

\* r = rng.random() * total: for integer durations the integer part of r
\* decides every comparison of the loop.
SelectionDraws(slices) ==
    IF TotalDuration(slices) = 0 THEN {0} ELSE 0..(TotalDuration(slices) - 1)

BDSelect(r) ==
    /\ bd_pc = "select"
    /\ IF gsa_ntax = None
       THEN /\ bd_pc' = "postprocess"
            /\ UNCHANGED <<parent_node, edge_length, extinct_tips, selected_slice, r_draw>>
       ELSE LET sel == SelectFrom(targetted_time_slices, r, 1, 0)
            IN IF sel = 0
               THEN /\ bd_pc' = "AssertionError"
                    /\ r_draw' = r
                    /\ UNCHANGED <<parent_node, edge_length, extinct_tips, selected_slice>>
               ELSE /\ bd_pc' = "postprocess"
                    /\ r_draw' = r
                    /\ selected_slice' = sel
                    /\ parent_node' = RestoredParents(parent_node, targetted_time_slices[sel])
                    /\ extinct_tips' = RestoredExtinctTips(parent_node, extinct_tips,
                                                           targetted_time_slices[sel])
                    /\ edge_length' = RestoredLengths(edge_length, targetted_time_slices[sel])
    /\ UNCHANGED <<bd_kwargs, terminate_at_full_tree, seed_node, num_nodes, leaf_nodes,
                   curr_num_leaves, total_time, targetted_time_slices, stop_at_size_tree,
                   restarted, waiting_time, slice_num_nodes>>
    /\ UNCHANGED non_bd_vars

\* Lines 276-299.
BDPostprocess ==
    /\ bd_pc = "postprocess"
    /\ LET t == suppress_unifurcations([parent |-> PruneExtinctTips(parent_node, extinct_tips),
                                        length |-> edge_length,
                                        seed |-> seed_node])
       IN /\ parent_node' = t.parent
          /\ edge_length' = t.length
          /\ seed_node' = t.seed
    /\ bd_pc' = "done"
    /\ UNCHANGED <<bd_kwargs, terminate_at_full_tree, num_nodes, leaf_nodes, curr_num_leaves,
                   total_time, targetted_time_slices, extinct_tips, selected_slice, r_draw,
                   stop_at_size_tree, restarted, waiting_time, slice_num_nodes>>
    /\ UNCHANGED non_bd_vars

(***************************************************************************)
(* ProtractedSpeciationModel                                               *)
(***************************************************************************)
\* Bounds of the keyword arguments; waiting times are those of WaitingTimes.
MaxPsmTime == 2
MaxMaxRetries == 1

\* Runs that stop on a max_time long enough for a pruned tree with
\* several tips.
MaxPsmLongTime == 4

\* With positive waiting times a run sees at most as many events as its
\* time bound, so at most that many births.
MaxPsmEvents == IF MaxPsmLongTime > MaxPsmTime THEN MaxPsmLongTime ELSE MaxPsmTime

MaxPsmLineages == 1 + MaxPsmEvents

MaxPsmNodes == 1 + 2 * MaxPsmEvents

\* Runs modelled when max_retries is None (the code has no limit then).
MaxPsmRuns == MaxMaxRetries + 2

PsmLineages == 1..MaxPsmLineages

PsmNodes == 1..MaxPsmNodes

PsmNoParents == [n \in PsmNodes |-> 0]

PsmNoLengths == [n \in PsmNodes |-> 0]

NoPrunedTree ==
    [parent |-> [l \in PsmLineages |-> 0],
     length |-> [l \in PsmLineages |-> 0],
     age |-> [l \in PsmLineages |-> None],
     seed |-> 0,
     parent_as_assembled |-> [l \in PsmLineages |-> 0],
     seed_as_assembled |-> 0,
     is_full_speciation_event |-> {}]

\* ProtractedSpeciationModelLineage.__init__
NewLineageRecord_FullSpecies(index, parent, time, is_full) ==
    [index |-> index,
     is_full_species |-> TRUE,
     parent_lineage |-> parent,
     speciation_initiation_time |-> time,
     speciation_completion_time |-> None,
     extinction_time |-> None,
     psm_tree_node_history |-> <<>>]

NewLineageRecord(index, parent, time, is_full) ==
    [index |-> index,
     is_full_species |-> is_full,
     parent_lineage |-> parent,
     speciation_initiation_time |-> time,
     speciation_completion_time |-> None,
     extinction_time |-> None,
     psm_tree_node_history |-> <<>>]

\* lineage.node: the last node of the lineage's history.
LineageNode(lineages, l) ==
    lineages[l].psm_tree_node_history[Len(lineages[l].psm_tree_node_history)]

\* lineage.node = node
SetLineageNode_Overwrite(lineages, l, nd) ==
    [lineages EXCEPT ![l].psm_tree_node_history = <<nd>>]

SetLineageNode(lineages, l, nd) ==
    [lineages EXCEPT ![l].psm_tree_node_history = Append(@, nd)]

\* itertools.chain(current_full_species_lineages, current_incipient_species_lineages)
ActiveLineages == current_full_species_lineages \o current_incipient_species_lineages

\* The five aggregate event rates, in event type order.
PsmEventRates ==
    LET num_full_species == Len(current_full_species_lineages)
        num_incipient_species == Len(current_incipient_species_lineages)
    IN <<psm_rates[1] * num_full_species,
         psm_rates[2] * num_full_species,
         psm_rates[3] * num_incipient_species,
         psm_rates[4] * num_incipient_species,
         psm_rates[5] * num_incipient_species>>

\* lineage.node.edge.length += t for every active lineage.
ExtendActiveEdges(len, t) ==
    [n \in PsmNodes |->
        IF \E i \in DOMAIN ActiveLineages : LineageNode(all_lineages, ActiveLineages[i]) = n
        THEN len[n] + t ELSE len[n]]

\* `if max_time and (self.current_time + waiting_time) > max_time`
PastMaxTime_Never(w) == FALSE

PastMaxTime(w) ==
    /\ psm_max_time # None
    /\ psm_max_time # 0
    /\ current_time + w > psm_max_time

\* The population an event type draws its lineage from.
EventPopulation(event_type_idx) ==
    IF event_type_idx \in {1, 2} THEN current_full_species_lineages
    ELSE current_incipient_species_lineages

\* `max_retries is not None and num_retries > max_retries`
RetriesExhausted_AtLimit(retries, limit) == limit # None /\ retries >= limit

RetriesExhausted(retries, limit) == limit # None /\ retries > limit

\* The calls whose max_time is drawn from max_times.
PSMInitFor(max_times) ==
    /\ psm_pc = "call"
    /\ psm_rates \in [1..5 -> Rates]
    /\ psm_max_time \in max_times
    /\ is_initial_species_incipient \in BOOLEAN
    /\ is_retry_on_total_extinction \in BOOLEAN
    /\ max_retries \in OptionalOf(0..MaxMaxRetries)
    /\ num_retries = 0
    /\ num_runs = 0
    /\ current_time = 0
    /\ current_lineage_index = 0
    /\ current_node_index = 0
    /\ current_full_species_lineages = <<>>
    /\ current_incipient_species_lineages = <<>>
    /\ all_lineages = <<>>
    /\ psm_parent_node = PsmNoParents
    /\ psm_edge_length = PsmNoLengths
    /\ psm_seed_node = 0
    /\ pruned_tree = NoPrunedTree

PSMInit == PSMInitFor(OptionalOf(0..MaxPsmTime))

\* One run up to a long max_time, without retry; the two births and
\* the conversion are all possible or all impossible.
PSMInitLongRun ==
    /\ PSMInitFor({MaxPsmLongTime})
    /\ psm_rates[1] = psm_rates[3]
    /\ psm_rates[3] = psm_rates[4]
    /\ ~is_retry_on_total_extinction
    /\ max_retries = None

PSMIdle ==
    /\ psm_pc = "idle"
    /\ psm_rates = [i \in 1..5 |-> 0]
    /\ psm_max_time = None
    /\ is_initial_species_incipient = FALSE
    /\ is_retry_on_total_extinction = TRUE
    /\ max_retries = None
    /\ num_retries = 0
    /\ num_runs = 0
    /\ current_time = 0
    /\ current_lineage_index = 0
    /\ current_node_index = 0
    /\ current_full_species_lineages = <<>>
    /\ current_incipient_species_lineages = <<>>
    /\ all_lineages = <<>>
    /\ psm_parent_node = PsmNoParents
    /\ psm_edge_length = PsmNoLengths
    /\ psm_seed_node = 0
    /\ pruned_tree = NoPrunedTree

\* reset(): the values the fields of the model are set to.
reset_KeepTime ==
    [current_time |-> current_time,
     current_lineage_index |-> 0,
     current_node_index |-> 0,
     current_full_species_lineages |-> <<>>,
     current_incipient_species_lineages |-> <<>>,
     all_lineages |-> <<>>]

reset ==
    [current_time |-> 0,
     current_lineage_index |-> 0,
     current_node_index |-> 0,
     current_full_species_lineages |-> <<>>,
     current_incipient_species_lineages |-> <<>>,
     all_lineages |-> <<>>]

\* generate_sample calls _run_protracted_speciation_process: reset(), the
\* initial lineage and the seed node of a new PSM tree.
PSMStartRun ==
    /\ psm_pc = "call"
    /\ max_retries = None => num_runs < MaxPsmRuns
    /\ num_runs' = num_runs + 1
    /\ LET initial_lineage == reset.current_lineage_index + 1
           initial_node == reset.current_node_index + 1
       IN /\ current_time' = reset.current_time
          /\ current_lineage_index' = initial_lineage
          /\ current_node_index' = initial_node
          /\ all_lineages' =
                SetLineageNode(
                   Append(reset.all_lineages,
                          NewLineageRecord(initial_lineage, None, reset.current_time,
                                           ~is_initial_species_incipient)),
                   initial_lineage, initial_node)
          /\ current_full_species_lineages' =
                IF is_initial_species_incipient
                THEN reset.current_full_species_lineages
                ELSE Append(reset.current_full_species_lineages, initial_lineage)
          /\ current_incipient_species_lineages' =
                IF is_initial_species_incipient
                THEN Append(reset.current_incipient_species_lineages, initial_lineage)
                ELSE reset.current_incipient_species_lineages
    /\ psm_parent_node' = PsmNoParents
    /\ psm_edge_length' = PsmNoLengths
    /\ psm_seed_node' = 1
    /\ psm_pc' = "loop"
    /\ UNCHANGED <<psm_kwargs, num_retries, pruned_tree>>
    /\ UNCHANGED non_psm_vars

\* rng.expovariate(0): the rate of any event is zero.
PSMNoEventPossible ==
    /\ psm_pc = "loop"
    /\ SumSeq(PsmEventRates) = 0
    /\ psm_pc' = "ZeroDivisionError"
    /\ UNCHANGED <<psm_kwargs, num_retries, num_runs, psm_model, pruned_tree>>
    /\ UNCHANGED non_psm_vars

\* The step that would pass max_time: no event, every active edge is
\* extended by the remainder and the loop ends.
PSMTimeUp(w) ==
    /\ psm_pc = "loop"
    /\ SumSeq(PsmEventRates) > 0
    /\ PastMaxTime(w)
    /\ psm_edge_length' = ExtendActiveEdges(psm_edge_length, psm_max_time - current_time)
    /\ current_time' = psm_max_time
    /\ psm_pc' = "assemble"
    /\ UNCHANGED <<psm_kwargs, num_retries, num_runs, current_lineage_index,
                   current_node_index, current_full_species_lineages,
                   current_incipient_species_lineages, all_lineages,
                   psm_parent_node, psm_seed_node, pruned_tree>>
    /\ UNCHANGED non_psm_vars

\* The bound of the clock followed: max_time itself when it is the longer.
PsmTimeCap ==
    IF psm_max_time # None /\ psm_max_time > MaxPsmTime THEN psm_max_time ELSE MaxPsmTime

\* The common head of a step that applies an event: the clock and the active
\* edges advance by the waiting time and the selector picks the event type.
PSMEventStep(w, draw, types) ==
    /\ psm_pc = "loop"
    /\ SumSeq(PsmEventRates) > 0
    /\ ~PastMaxTime(w)
    /\ current_time + w <= PsmTimeCap
    /\ weighted_index_choice(PsmEventRates, draw) \in types
    /\ current_time' = current_time + w
    /\ UNCHANGED <<psm_kwargs, num_runs, pruned_tree>>
    /\ UNCHANGED non_psm_vars

\* rng.choice on an empty population.
PSMChoiceFromEmpty(w, draw) ==
    /\ PSMEventStep(w, draw, 1..5)
    /\ EventPopulation(weighted_index_choice(PsmEventRates, draw)) = <<>>
    /\ psm_edge_length' = ExtendActiveEdges(psm_edge_length, w)
    /\ psm_pc' = "IndexError"
    /\ UNCHANGED <<num_retries, current_lineage_index, current_node_index,
                   current_full_species_lineages, current_incipient_species_lineages,
                   all_lineages, psm_parent_node, psm_seed_node>>

\* _process_full_species_birth / _process_incipient_species_birth
PSMBirth(w, draw, k) ==
    /\ PSMEventStep(w, draw, {1, 3})
    /\ LET population == EventPopulation(weighted_index_choice(PsmEventRates, draw))
       IN /\ k \in DOMAIN population
          /\ LET parent_lineage == population[k]
                 parent == LineageNode(all_lineages, parent_lineage)
                 new_lineage == current_lineage_index + 1
                 c1 == current_node_index + 1
                 c2 == current_node_index + 2
                 len1 == ExtendActiveEdges(psm_edge_length, w)
             IN /\ current_lineage_index' = new_lineage
                /\ current_node_index' = c2
                /\ all_lineages' =
                      SetLineageNode(
                         SetLineageNode(
                            Append(all_lineages,
                                   NewLineageRecord(new_lineage, parent_lineage,
                                                    current_time + w, FALSE)),
                            parent_lineage, c1),
                         new_lineage, c2)
                /\ current_incipient_species_lineages' =
                      Append(current_incipient_species_lineages, new_lineage)
                /\ psm_parent_node' = [psm_parent_node EXCEPT ![c1] = parent, ![c2] = parent]
                /\ psm_edge_length' = [len1 EXCEPT ![c1] = 0, ![c2] = 0]
    /\ psm_pc' = "loop"
    /\ UNCHANGED <<num_retries, current_full_species_lineages, psm_seed_node>>

\* Lines 883-884: the lineage becomes a full species at the current time.
ConvertedLineage_NoCompletionTime(lineage, time) ==
    [lineage EXCEPT !.is_full_species = TRUE]

ConvertedLineage(lineage, time) ==
    [lineage EXCEPT !.is_full_species = TRUE, !.speciation_completion_time = time]

\* _process_incipient_species_conversion
PSMConversion(w, draw, k) ==
    /\ PSMEventStep(w, draw, {4})
    /\ k \in DOMAIN current_incipient_species_lineages
    /\ LET lineage == current_incipient_species_lineages[k]
       IN /\ current_incipient_species_lineages' =
                RemoveFromList(current_incipient_species_lineages, lineage)
          /\ current_full_species_lineages' = Append(current_full_species_lineages, lineage)
          /\ all_lineages' =
                [all_lineages EXCEPT
                    ![lineage] = ConvertedLineage(@, current_time + w)]
    /\ psm_edge_length' = ExtendActiveEdges(psm_edge_length, w)
    /\ psm_pc' = "loop"
    /\ UNCHANGED <<num_retries, current_lineage_index, current_node_index,
                   psm_parent_node, psm_seed_node>>

\* Line 893: both populations are empty.
TotalExtinction_Never(full, incipient) == FALSE

TotalExtinction(full, incipient) == Len(full) = 0 /\ Len(incipient) = 0

\* _process_full_species_extinction / _process_incipient_species_extinction
\* with _make_lineage_extinct_on_phylogeny, and the handler of
\* TreeSimTotalExtinctionException in generate_sample.
PSMExtinction(w, draw, k) ==
    /\ PSMEventStep(w, draw, {2, 5})
    /\ LET event_type_idx == weighted_index_choice(PsmEventRates, draw)
           population == EventPopulation(event_type_idx)
       IN /\ k \in DOMAIN population
          /\ LET sp == population[k]
                 full1 == IF event_type_idx = 2
                          THEN RemoveFromList(current_full_species_lineages, sp)
                          ELSE current_full_species_lineages
                 incipient1 == IF event_type_idx = 5
                               THEN RemoveFromList(current_incipient_species_lineages, sp)
                               ELSE current_incipient_species_lineages
                 len1 == ExtendActiveEdges(psm_edge_length, w)
                 pruned == suppress_unifurcations(
                              [parent |-> prune_subtree(psm_parent_node,
                                                        LineageNode(all_lineages, sp)),
                               length |-> len1,
                               seed |-> psm_seed_node])
             IN /\ all_lineages' = [all_lineages EXCEPT ![sp].extinction_time = current_time + w]
                /\ current_full_species_lineages' = full1
                /\ current_incipient_species_lineages' = incipient1
                /\ IF TotalExtinction(full1, incipient1)
                   THEN /\ psm_edge_length' = len1
                        /\ UNCHANGED <<psm_parent_node, psm_seed_node>>
                        /\ IF ~is_retry_on_total_extinction
                           THEN /\ psm_pc' = "TreeSimTotalExtinctionException"
                                /\ UNCHANGED num_retries
                           ELSE /\ num_retries' = num_retries + 1
                                /\ psm_pc' = IF RetriesExhausted(num_retries + 1, max_retries)
                                             THEN "TreeSimTotalExtinctionException"
                                             ELSE "call"
                   ELSE /\ psm_parent_node' = pruned.parent
                        /\ psm_edge_length' = pruned.length
                        /\ psm_seed_node' = pruned.seed
                        /\ psm_pc' = "loop"
                        /\ UNCHANGED num_retries
    /\ UNCHANGED <<current_lineage_index, current_node_index>>

\* The loop of _assemble_pruned_tree over the surviving lineages, latest
\* speciation initiation first; st holds lineage_set, branching_points (the
\* lineages that have a node), the parent of every such node and the
\* lineage records.
\* `if lineage.is_full_species:` (line 944)
LineageIsFullSpecies_Always(lineages, l) == TRUE

LineageIsFullSpecies(lineages, l) == lineages[l].is_full_species

RECURSIVE AssembleLoop(_)
AssembleLoop(st) ==
    IF st.lineage_set = {} THEN st
    ELSE LET lineage == CHOOSE l \in st.lineage_set :
                           \A m \in st.lineage_set :
                              st.lineages[l].speciation_initiation_time
                                 >= st.lineages[m].speciation_initiation_time
             rest == st.lineage_set \ {lineage}
             parent_lineage == st.lineages[lineage].parent_lineage
         IN IF parent_lineage = None THEN [st EXCEPT !.lineage_set = rest]
            ELSE IF LineageIsFullSpecies(st.lineages, lineage)
            THEN AssembleLoop(
                    [lineage_set |-> rest \cup {parent_lineage},
                     branching_points |-> st.branching_points \cup {lineage, parent_lineage},
                     parent |-> [st.parent EXCEPT ![lineage] = parent_lineage],
                     lineages |-> [st.lineages EXCEPT ![parent_lineage].is_full_species = TRUE]])
            ELSE AssembleLoop([st EXCEPT !.lineage_set = rest])

Assembled ==
    AssembleLoop(
       [lineage_set |-> Range(current_incipient_species_lineages)
                           \cup Range(current_full_species_lineages),
        branching_points |-> {},
        parent |-> [l \in PsmLineages |-> 0],
        lineages |-> all_lineages])

\* The nodes of branching_points that have no parent.
SeedCandidates(st) == {l \in st.branching_points : st.parent[l] = 0}

\* nd.age of the postorder pass: 0 at a leaf, else current_time minus the
\* earliest speciation initiation among the children's lineages.
PrunedAges_LatestChild(st, seed) ==
    [l \in PsmLineages |->
        IF l \notin TreeNodes(st.parent, seed) THEN None
        ELSE IF Children(st.parent, l) = {} THEN 0
        ELSE current_time
                - SetMax({st.lineages[ch].speciation_initiation_time :
                             ch \in Children(st.parent, l)})]

PrunedAges(st, seed) ==
    [l \in PsmLineages |->
        IF l \notin TreeNodes(st.parent, seed) THEN None
        ELSE IF Children(st.parent, l) = {} THEN 0
        ELSE current_time
                - SetMin({st.lineages[ch].speciation_initiation_time :
                             ch \in Children(st.parent, l)})]

\* pruned_tree.set_edge_lengths_from_node_ages()
set_edge_lengths_from_node_ages(par, age) ==
    [l \in DOMAIN par |-> IF par[l] = 0 THEN 0 ELSE age[par[l]] - age[l]]

\* psm_tree.calc_node_ages(): the age of a node of the tree is its distance
\* to the tips below it; a node no longer in the tree has none.
RECURSIVE NodeAgeInTree(_, _, _)
NodeAgeInTree(par, len, n) ==
    IF Children(par, n) = {} THEN 0
    ELSE LET ch == CHOOSE c \in Children(par, n) : TRUE
         IN NodeAgeInTree(par, len, ch) + len[ch]

calc_node_ages(par, len, seed) ==
    [n \in DOMAIN par |->
        IF n \in TreeNodes(par, seed) THEN NodeAgeInTree(par, len, n) ELSE None]

\* Lines 845-848: the node of the lineage's history with the greatest age.
RECURSIVE OldestNode(_, _, _, _)
OldestNode(history, age, i, psm_tree_node) ==
    IF i > Len(history) THEN psm_tree_node
    ELSE OldestNode(history, age, i + 1,
                    IF age[history[i]] # None /\ age[history[i]] > age[psm_tree_node]
                    THEN history[i] ELSE psm_tree_node)

\* Line 847 compares an age with the missing age of the first history node.
ComparesWithMissingAge(history, age) ==
    /\ age[history[1]] = None
    /\ \E i \in DOMAIN history : age[history[i]] # None

\* The rest of _run_protracted_speciation_process: the pruned tree is
\* assembled, aged and collapsed, and the PSM tree nodes of its internal
\* nodes are marked; generate_sample returns both trees.
PSMAssemble ==
    /\ psm_pc = "assemble"
    /\ LET st == Assembled
       IN /\ all_lineages' = st.lineages
          /\ IF SeedCandidates(st) = {}
             THEN /\ psm_pc' = "AssertionError"
                  /\ UNCHANGED pruned_tree
             ELSE LET seed == SetMin(SeedCandidates(st))
                      age == PrunedAges(st, seed)
                      t == suppress_unifurcations(
                              [parent |-> st.parent,
                               length |-> set_edge_lengths_from_node_ages(st.parent, age),
                               seed |-> seed])
                      psm_age == calc_node_ages(psm_parent_node, psm_edge_length, psm_seed_node)
                      internal == {l \in TreeNodes(t.parent, t.seed) :
                                      Children(t.parent, l) # {}}
                      history(l) == st.lineages[l].psm_tree_node_history
                      missing == \E l \in internal : ComparesWithMissingAge(history(l), psm_age)
                  IN \E outcome \in (IF missing THEN {"returned", "TypeError"}
                                     ELSE {"returned"}) :
                        /\ psm_pc' = outcome
                        /\ pruned_tree' =
                              [parent |-> t.parent,
                               length |-> t.length,
                               age |-> age,
                               seed |-> t.seed,
                               parent_as_assembled |-> st.parent,
                               seed_as_assembled |-> seed,
                               is_full_speciation_event |->
                                  IF outcome = "returned"
                                  THEN {OldestNode(history(l), psm_age, 1, history(l)[1]) :
                                           l \in internal}
                                  ELSE {}]
    /\ UNCHANGED <<psm_kwargs, num_retries, num_runs, current_time, current_lineage_index,
                   current_node_index, current_full_species_lineages,
                   current_incipient_species_lineages, psm_parent_node,
                   psm_edge_length, psm_seed_node>>
    /\ UNCHANGED non_psm_vars

(***************************************************************************)
(* uniform_pure_birth_tree                                                 *)
(***************************************************************************)
\* Bound of the namespace size.
MaxTaxa == 4

UpbNodes == 1..(1 + 2 * MaxTaxa)

UPBInit ==
    /\ upb_pc = "call"
    /\ upb_taxon_namespace \in {[i \in 1..n |-> i] : n \in 0..MaxTaxa}
    /\ upb_birth_rate \in Rates
    /\ upb_parent_node = [n \in UpbNodes |-> 0]
    /\ upb_edge_length = [n \in UpbNodes |-> 0]
    /\ upb_num_nodes = 0
    /\ upb_leaf_nodes = <<>>
    /\ upb_taxon = [n \in UpbNodes |-> None]
    /\ upb_waiting_times = 0

UPBIdle ==
    /\ upb_pc = "idle"
    /\ upb_taxon_namespace = <<>>
    /\ upb_birth_rate = 0
    /\ upb_parent_node = [n \in UpbNodes |-> 0]
    /\ upb_edge_length = [n \in UpbNodes |-> 0]
    /\ upb_num_nodes = 0
    /\ upb_leaf_nodes = <<>>
    /\ upb_taxon = [n \in UpbNodes |-> None]
    /\ upb_waiting_times = 0

\* Lines 441-443: a new tree, whose seed node is its only leaf.
UPBSetup ==
    /\ upb_pc = "call"
    /\ upb_num_nodes' = 1
    /\ upb_leaf_nodes' = LeafNodesInOrder(upb_parent_node, 1)
    /\ upb_pc' = "loop"
    /\ UNCHANGED <<upb_taxon_namespace, upb_birth_rate, upb_parent_node,
                   upb_edge_length, upb_taxon, upb_waiting_times>>
    /\ UNCHANGED non_upb_vars

\* len(leaf_nodes)/birth_rate with birth_rate = 0, at line 445 or line 455.
UPBZeroBirthRate ==
    /\ upb_pc = "loop"
    /\ upb_birth_rate = 0
    /\ upb_pc' = "ZeroDivisionError"
    /\ UNCHANGED <<upb_taxon_namespace, upb_birth_rate, upb_parent_node,
                   upb_edge_length, upb_num_nodes, upb_leaf_nodes, upb_taxon,
                   upb_waiting_times>>
    /\ UNCHANGED non_upb_vars

\* `for nd in leaf_nodes: nd.edge.length += waiting_time`
UpbAddWaitingTime_EveryNode(len, leaves, w) == [n \in UpbNodes |-> len[n] + w]

UpbAddWaitingTime(len, leaves, w) ==
    [n \in UpbNodes |-> IF n \in Range(leaves) THEN len[n] + w ELSE len[n]]

\* One pass of the loop of lines 444-453: every leaf grows by the waiting
\* time and the chosen leaf gets two children.
UPBSplit(w, k) ==
    /\ upb_pc = "loop"
    /\ upb_birth_rate # 0
    /\ Len(upb_leaf_nodes) < Len(upb_taxon_namespace)
    /\ k \in DOMAIN upb_leaf_nodes
    /\ LET parent == upb_leaf_nodes[k]
           c1 == upb_num_nodes + 1
           c2 == upb_num_nodes + 2
           par1 == [upb_parent_node EXCEPT ![c1] = parent, ![c2] = parent]
       IN /\ upb_parent_node' = par1
          /\ upb_edge_length' =
                [UpbAddWaitingTime(upb_edge_length, upb_leaf_nodes, w)
                    EXCEPT ![c1] = 0, ![c2] = 0]
          /\ upb_num_nodes' = c2
          /\ upb_leaf_nodes' = LeafNodesInOrder(par1, 1)
    /\ upb_waiting_times' = upb_waiting_times + w
    /\ UNCHANGED <<upb_pc, upb_taxon_namespace, upb_birth_rate, upb_taxon>>
    /\ UNCHANGED non_upb_vars

\* leaf.taxon = taxon_namespace[idx] for the leaves taken in order, up to
\* the first index the namespace does not have.
AssignedTaxa(leaves, namespace, taxon) ==
    [n \in DOMAIN taxon |->
        IF \E i \in DOMAIN leaves : leaves[i] = n /\ i \in DOMAIN namespace
        THEN namespace[CHOOSE i \in DOMAIN leaves : leaves[i] = n]
        ELSE taxon[n]]

\* Lines 454-461: the last waiting time and the taxa of the leaves.
UPBFinish(w) ==
    /\ upb_pc = "loop"
    /\ upb_birth_rate # 0
    /\ Len(upb_leaf_nodes) >= Len(upb_taxon_namespace)
    /\ LET leaves == LeafNodesInOrder(upb_parent_node, 1)
       IN /\ upb_leaf_nodes' = leaves
          /\ upb_edge_length' = UpbAddWaitingTime(upb_edge_length, leaves, w)
          /\ upb_taxon' = AssignedTaxa(leaves, upb_taxon_namespace, upb_taxon)
          /\ upb_pc' = IF Len(leaves) > Len(upb_taxon_namespace)
                       THEN "IndexError" ELSE "returned"
    /\ upb_waiting_times' = upb_waiting_times + w
    /\ UNCHANGED <<upb_taxon_namespace, upb_birth_rate, upb_parent_node, upb_num_nodes>>
    /\ UNCHANGED non_upb_vars

(***************************************************************************)
(* discrete_birth_death_tree                                               *)
(***************************************************************************)
\* Bounds: the births of one call, the generations run in one call, the
\* generations the closing loop adds, and the keyword arguments.
MaxDbdBirths == 3
MaxDbdGens == 3
MaxGensToAdd == 2
MaxDbdNtax == 3
MaxDbdMaxTime == 2

DbdNodes == 1..(1 + 2 * MaxDbdBirths)

\* Probabilities and rng.uniform(0, 1) in quarters: rates 0, 1/2 and 1,
\* draws 0, 1/4, 1/2 and 3/4.
DiscreteRates == {0, 2, 4}

UniformDraws == 0..3

DBDInit ==
    /\ dbd_pc = "call"
    /\ dbd_birth_rate \in DiscreteRates
    /\ dbd_death_rate \in DiscreteRates
    /\ dbd_ntax \in OptionalOf(1..MaxDbdNtax)
    /\ dbd_max_time \in OptionalOf(0..MaxDbdMaxTime)
    /\ dbd_repeat_until_success \in BOOLEAN
    /\ dbd_tree_given \in BOOLEAN
    /\ dbd_taxon_namespace \in NamespaceKwargs
    /\ dbd_taxon_namespace = "of_tree" => dbd_tree_given
    /\ dbd_taxon_namespace # "absent" => dbd_ntax # None
    /\ dbd_parent_node = IF dbd_tree_given THEN SuppliedParents(DbdNodes)
                         ELSE [n \in DbdNodes |-> 0]
    /\ dbd_edge_length = IF dbd_tree_given THEN SuppliedLengths(DbdNodes)
                         ELSE [n \in DbdNodes |-> 0]
    /\ dbd_seed_node = IF dbd_tree_given THEN 1 ELSE 0
    /\ dbd_num_nodes = IF dbd_tree_given THEN 3 ELSE 0
    /\ dbd_leaf_nodes = <<>>
    /\ dbd_idx = 0
    /\ dbd_num_gens = 0
    /\ dbd_gens_run = 0
    /\ dbd_gens_to_add = 0
    /\ dbd_seen_num_gens = <<>>
    /\ dbd_last_lineage_died = FALSE
    /\ dbd_u = None

DBDIdle ==
    /\ dbd_pc = "idle"
    /\ dbd_birth_rate = 0
    /\ dbd_death_rate = 0
    /\ dbd_ntax = None
    /\ dbd_max_time = None
    /\ dbd_repeat_until_success = FALSE
    /\ dbd_tree_given = FALSE
    /\ dbd_taxon_namespace = "absent"
    /\ dbd_parent_node = [n \in DbdNodes |-> 0]
    /\ dbd_edge_length = [n \in DbdNodes |-> 0]
    /\ dbd_seed_node = 0
    /\ dbd_num_nodes = 0
    /\ dbd_leaf_nodes = <<>>
    /\ dbd_idx = 0
    /\ dbd_num_gens = 0
    /\ dbd_gens_run = 0
    /\ dbd_gens_to_add = 0
    /\ dbd_seen_num_gens = <<>>
    /\ dbd_last_lineage_died = FALSE
    /\ dbd_u = None

\* Lines 354-357: none of ntax, taxon_namespace, max_time is given.
DBDConfigurationError ==
    dbd_ntax = None /\ dbd_taxon_namespace = "absent" /\ dbd_max_time = None

\* Lines 372-375: tree together with a namespace that is not the tree's.
DBDTreeAndNamespace == dbd_tree_given /\ dbd_taxon_namespace = "other"

\* The test of the growth loop (lines 384-385).
DBDGrows(leaves, gens) ==
    /\ dbd_ntax = None \/ Len(leaves) < dbd_ntax
    /\ dbd_max_time = None \/ gens < dbd_max_time

\* Lines 354-385: the arguments are checked, the tree is taken or created,
\* and the growth loop is tested for the first time.
DBDSetup ==
    /\ dbd_pc = "call"
    /\ IF DBDConfigurationError \/ DBDTreeAndNamespace
       THEN /\ dbd_pc' = "ValueError"
            /\ UNCHANGED <<dbd_seed_node, dbd_num_nodes, dbd_leaf_nodes, dbd_idx,
                           dbd_seen_num_gens, dbd_last_lineage_died>>
       ELSE LET seed == 1
                leaves == LeafNodesInOrder(dbd_parent_node, seed)
            IN /\ dbd_seed_node' = seed
               /\ dbd_num_nodes' = IF dbd_tree_given THEN dbd_num_nodes ELSE 1
               /\ dbd_leaf_nodes' = leaves
               /\ dbd_idx' = 1
               /\ dbd_seen_num_gens' = <<0>>
               /\ dbd_last_lineage_died' = FALSE
               /\ dbd_pc' = IF DBDGrows(leaves, 0) THEN "loop" ELSE "extend"
    /\ UNCHANGED <<dbd_kwargs, dbd_parent_node, dbd_edge_length, dbd_num_gens,
                   dbd_gens_run, dbd_gens_to_add, dbd_u>>
    /\ UNCHANGED non_dbd_vars

\* What the draw u does to a leaf (lines 395-405).
DiscreteEvent_DeathFirst(u, b, d) ==
    IF u < d THEN "death"
    ELSE IF u < b + d THEN "birth"
    ELSE "none"

DiscreteEvent(u, b, d) ==
    IF u < b THEN "birth"
    ELSE IF u > b /\ u < b + d THEN "death"
    ELSE "none"

\* What the death of the seed node does (lines 408-413).
SeedDeathOutcome_AlwaysRepeat(repeat) == "repeat"

SeedDeathOutcome(repeat) == IF ~repeat THEN "raise" ELSE "repeat"

\* Lines 386-413: one leaf of the generation grows by one and then splits,
\* dies or stays, as the draw u decides.
DBDLeafStep(u) ==
    /\ dbd_pc = "loop"
    /\ dbd_idx \in DOMAIN dbd_leaf_nodes
    /\ dbd_gens_run < MaxDbdGens
    /\ LET nd == dbd_leaf_nodes[dbd_idx]
           len1 == [dbd_edge_length EXCEPT ![nd] = @ + 1]
           event == DiscreteEvent(u, dbd_birth_rate, dbd_death_rate)
           c1 == dbd_num_nodes + 1
           c2 == dbd_num_nodes + 2
           pruned == suppress_unifurcations(
                        [parent |-> prune_subtree(dbd_parent_node, nd),
                         length |-> len1,
                         seed |-> dbd_seed_node])
       IN /\ IF event = "birth"
             THEN /\ c2 \in DbdNodes
                  /\ dbd_parent_node' = [dbd_parent_node EXCEPT ![c1] = nd, ![c2] = nd]
                  /\ dbd_edge_length' = [len1 EXCEPT ![c1] = 0, ![c2] = 0]
                  /\ dbd_num_nodes' = c2
                  /\ dbd_pc' = "loop"
                  /\ UNCHANGED <<dbd_seed_node, dbd_num_gens>>
             ELSE IF event = "death" /\ nd # dbd_seed_node
             THEN /\ dbd_parent_node' = pruned.parent
                  /\ dbd_edge_length' = pruned.length
                  /\ dbd_seed_node' = pruned.seed
                  /\ dbd_pc' = "loop"
                  /\ UNCHANGED <<dbd_num_nodes, dbd_num_gens>>
             ELSE IF event = "death" /\ SeedDeathOutcome(dbd_repeat_until_success) = "raise"
             THEN /\ dbd_edge_length' = len1
                  /\ dbd_pc' = "TreeSimTotalExtinctionException"
                  /\ UNCHANGED <<dbd_parent_node, dbd_seed_node, dbd_num_nodes, dbd_num_gens>>
             ELSE /\ dbd_edge_length' = len1
                  /\ dbd_num_gens' = IF event = "death" THEN 0 ELSE dbd_num_gens
                  /\ dbd_pc' = "loop"
                  /\ UNCHANGED <<dbd_parent_node, dbd_seed_node, dbd_num_nodes>>
          /\ dbd_last_lineage_died' =
                (event = "death" /\ LeafNodesInOrder(dbd_parent_node, dbd_seed_node) = <<nd>>)
    /\ dbd_idx' = dbd_idx + 1
    /\ dbd_u' = u
    /\ UNCHANGED <<dbd_kwargs, dbd_leaf_nodes, dbd_gens_run, dbd_gens_to_add,
                   dbd_seen_num_gens>>
    /\ UNCHANGED non_dbd_vars

\* Lines 415-416 and the next test of the loop: the generation is counted
\* and the leaves are read again from the tree.
DBDGenerationEnd ==
    /\ dbd_pc = "loop"
    /\ dbd_idx > Len(dbd_leaf_nodes)
    /\ LET leaves == LeafNodesInOrder(dbd_parent_node, dbd_seed_node)
       IN /\ dbd_num_gens' = dbd_num_gens + 1
          /\ dbd_gens_run' = dbd_gens_run + 1
          /\ dbd_leaf_nodes' = leaves
          /\ dbd_idx' = 1
          /\ dbd_seen_num_gens' = Append(dbd_seen_num_gens, dbd_num_gens + 1)
          /\ dbd_pc' = IF DBDGrows(leaves, dbd_num_gens + 1) THEN "loop" ELSE "extend"
    /\ UNCHANGED <<dbd_kwargs, dbd_parent_node, dbd_edge_length, dbd_seed_node,
                   dbd_num_nodes, dbd_gens_to_add, dbd_last_lineage_died, dbd_u>>
    /\ UNCHANGED non_dbd_vars

\* Lines 422-427: one pass of the closing loop that counts generations
\* until the next event would happen.
DBDExtendStep(u) ==
    /\ dbd_pc = "extend"
    /\ dbd_max_time = None \/ dbd_num_gens < dbd_max_time
    /\ ~(u < dbd_birth_rate + dbd_death_rate)
    /\ dbd_gens_to_add < MaxGensToAdd
    /\ dbd_gens_to_add' = dbd_gens_to_add + 1
    /\ dbd_u' = u
    /\ UNCHANGED <<dbd_kwargs, dbd_pc, dbd_parent_node, dbd_edge_length, dbd_seed_node,
                   dbd_num_nodes, dbd_leaf_nodes, dbd_idx, dbd_num_gens, dbd_gens_run,
                   dbd_seen_num_gens, dbd_last_lineage_died>>
    /\ UNCHANGED non_dbd_vars

\* Lines 423-435: the closing loop ends, the leaves get the generations
\* counted, and the tree is returned.
DBDReturn(u) ==
    /\ dbd_pc = "extend"
    /\ \/ ~(dbd_max_time = None \/ dbd_num_gens < dbd_max_time)
       \/ u < dbd_birth_rate + dbd_death_rate
    /\ dbd_edge_length' =
          [n \in DbdNodes |->
              IF n \in Range(LeafNodesInOrder(dbd_parent_node, dbd_seed_node))
              THEN dbd_edge_length[n] + dbd_gens_to_add
              ELSE dbd_edge_length[n]]
    /\ dbd_u' = IF dbd_max_time = None \/ dbd_num_gens < dbd_max_time THEN u ELSE dbd_u
    /\ dbd_pc' = "returned"
    /\ UNCHANGED <<dbd_kwargs, dbd_parent_node, dbd_seed_node, dbd_num_nodes,
                   dbd_leaf_nodes, dbd_idx, dbd_num_gens, dbd_gens_run, dbd_gens_to_add,
                   dbd_seen_num_gens, dbd_last_lineage_died>>
    /\ UNCHANGED non_dbd_vars

(***************************************************************************)
(* empirical_cdf (dendropy/mathlib/statistics.py)                          *)
(***************************************************************************)
\* Bounds of the arguments.
MaxValues == 3
MaxValue == 2

\* Lines 117-120: the loop that counts.
RECURSIVE CountLoop(_, _, _, _)
CountLoop(values, v, idx, count) ==
    IF idx > Len(values) THEN count
    ELSE CountLoop(values, v, idx + 1, IF values[idx] < v THEN count + 1 ELSE count)

\* The quotient returned, as <<count, len(values)>>.
empirical_cdf(values, v) == <<CountLoop(values, v, 1, 0), Len(values)>>

CdfInit ==
    /\ cdf_pc = "call"
    /\ cdf_values \in SeqsOf(0..MaxValue, 0, MaxValues)
    /\ cdf_v \in 0..MaxValue
    /\ cdf_result = <<0, 1>>

CdfIdle ==
    /\ cdf_pc = "idle"
    /\ cdf_values = <<>>
    /\ cdf_v = 0
    /\ cdf_result = <<0, 1>>

\* Line 121 with an empty list: count / 0.
CdfEmptyValues ==
    /\ cdf_pc = "call"
    /\ cdf_values = <<>>
    /\ cdf_pc' = "ZeroDivisionError"
    /\ UNCHANGED <<cdf_values, cdf_v, cdf_result>>
    /\ UNCHANGED non_cdf_vars

CdfCall ==
    /\ cdf_pc = "call"
    /\ cdf_values # <<>>
    /\ cdf_result' = empirical_cdf(cdf_values, cdf_v)
    /\ cdf_pc' = "returned"
    /\ UNCHANGED <<cdf_values, cdf_v>>
    /\ UNCHANGED non_cdf_vars

(***************************************************************************)
(* Specifications.                                                         *)
(***************************************************************************)
InitCdf == CdfInit /\ FitIdle /\ BDIdle /\ PSMIdle /\ UPBIdle /\ DBDIdle

NextCdf == CdfEmptyValues \/ CdfCall

SpecCdf == InitCdf /\ [][NextCdf]_vars

InitFit == FitInit /\ BDIdle /\ PSMIdle /\ UPBIdle /\ DBDIdle /\ CdfIdle

NextFit == FitCall \/ FitCallAgain

SpecFit == InitFit /\ [][NextFit]_vars

InitBD == BDInit /\ FitIdle /\ PSMIdle /\ UPBIdle /\ DBDIdle /\ CdfIdle

NextBD ==
    \/ BDSetup
    \/ BDLoopHead
    \/ BDNoEventPossible
    \/ \E w \in WaitingTimes :
         \E draw \in Draws(EventRates(leaf_nodes, birth_rate, death_rate)) :
            BDLoopBody(w, draw)
    \/ \E r \in SelectionDraws(targetted_time_slices) : BDSelect(r)
    \/ BDPostprocess

SpecBD == InitBD /\ [][NextBD]_vars

InitBDMaxTimeOnly == BDInitMaxTimeOnly /\ FitIdle /\ PSMIdle /\ UPBIdle /\ DBDIdle /\ CdfIdle

SpecBDMaxTimeOnly == InitBDMaxTimeOnly /\ [][NextBD]_vars

\* Both families of calls of birth_death_tree.
InitBDTrees == InitBD \/ InitBDMaxTimeOnly

SpecBDTrees == InitBDTrees /\ [][NextBD]_vars

InitPSM == PSMInit /\ FitIdle /\ BDIdle /\ UPBIdle /\ DBDIdle /\ CdfIdle

NextPSM ==
    \/ PSMStartRun
    \/ PSMNoEventPossible
    \/ \E w \in WaitingTimes : PSMTimeUp(w)
    \/ \E w \in WaitingTimes : \E draw \in Draws(PsmEventRates) : PSMChoiceFromEmpty(w, draw)
    \/ \E w \in WaitingTimes : \E draw \in Draws(PsmEventRates) :
         \E k \in PsmLineages : PSMBirth(w, draw, k)
    \/ \E w \in WaitingTimes : \E draw \in Draws(PsmEventRates) :
         \E k \in PsmLineages : PSMConversion(w, draw, k)
    \/ \E w \in WaitingTimes : \E draw \in Draws(PsmEventRates) :
         \E k \in PsmLineages : PSMExtinction(w, draw, k)
    \/ PSMAssemble

SpecPSM == InitPSM /\ [][NextPSM]_vars

InitPSMLongRun == PSMInitLongRun /\ FitIdle /\ BDIdle /\ UPBIdle /\ DBDIdle /\ CdfIdle

SpecPSMLongRun == InitPSMLongRun /\ [][NextPSM]_vars

InitUPB == UPBInit /\ FitIdle /\ BDIdle /\ PSMIdle /\ DBDIdle /\ CdfIdle

NextUPB ==
    \/ UPBSetup
    \/ UPBZeroBirthRate
    \/ \E w \in WaitingTimes : \E k \in UpbNodes : UPBSplit(w, k)
    \/ \E w \in WaitingTimes : UPBFinish(w)

SpecUPB == InitUPB /\ [][NextUPB]_vars

InitDBD == DBDInit /\ FitIdle /\ BDIdle /\ PSMIdle /\ UPBIdle /\ CdfIdle

NextDBD ==
    \/ DBDSetup
    \/ \E u \in UniformDraws : DBDLeafStep(u)
    \/ DBDGenerationEnd
    \/ \E u \in UniformDraws : DBDExtendStep(u)
    \/ \E u \in UniformDraws : DBDReturn(u)

SpecDBD == InitDBD /\ [][NextDBD]_vars

\* One caller passes the same rates, tree, namespace and retry flag to both
\* simulators; only their argument checks are run.
SameCall ==
    /\ dbd_tree_given = tree_given
    /\ dbd_taxon_namespace = taxon_namespace
    /\ dbd_repeat_until_success = repeat_until_success
    /\ dbd_birth_rate = 4 * birth_rate
    /\ dbd_death_rate = 4 * death_rate

InitArgs == BDInit /\ DBDInit /\ SameCall /\ FitIdle /\ PSMIdle /\ UPBIdle /\ CdfIdle

NextArgs == BDSetup \/ DBDSetup

SpecArgs == InitArgs /\ [][NextArgs]_vars

(***************************************************************************)
(* Claims about birth_death_tree (checked under SpecBD).                   *)
(***************************************************************************)
BDReturnedLeaves == TreeLeafNodes(parent_node, seed_node)

\* C1: with a target tip count and no max_time, whenever the call returns
\* the returned tree has exactly target leaves, on the stop-at-size path and
\* on the GSA path.
C1_ReturnedTreeHasTargetLeaves ==
    (bd_pc = "done" /\ ntax # None /\ max_time = None)
        => Cardinality(BDReturnedLeaves) = ntax

\* A GSA run that returned after deaths and with several slices recorded.
C1_Witness ==
    /\ bd_pc = "done"
    /\ ntax # None /\ max_time = None
    /\ ~terminate_at_full_tree
    /\ gsa_ntax > ntax
    /\ Len(targetted_time_slices) >= 2
    /\ num_nodes >= 3
    /\ Cardinality(BDReturnedLeaves) = ntax

\* C2: with a target tip count and max_time both given, the loop exits once
\* the elapsed time has passed max_time: no further waiting time is drawn.
C2_LoopExitsPastMaxTime ==
    (bd_pc = "body" /\ ntax # None /\ max_time # None) => total_time <= max_time

BDTreeCreated == bd_pc \notin {"idle", "call", "ValueError"}

RECURSIVE CumulativeDuration(_, _)
CumulativeDuration(slices, i) ==
    IF i = 0 THEN 0 ELSE slices[i].waiting_time + CumulativeDuration(slices, i - 1)

FirstSliceExceeding(slices, r) ==
    SetMin({i \in DOMAIN slices : CumulativeDuration(slices, i) > r})

\* C5: the selected slice is the first one in recording order whose
\* cumulative duration exceeds the draw r.
C5_SelectedSliceIsFirstExceedingDraw ==
    (bd_pc \in {"postprocess", "done"} /\ selected_slice # 0)
        => selected_slice = FirstSliceExceeding(targetted_time_slices, r_draw)

\* The sum of the edge lengths from the node up to the root, the root's
\* own edge included.
RECURSIVE PathLength(_, _, _)
PathLength(par, len, n) ==
    IF par[n] = 0 THEN len[n] ELSE len[n] + PathLength(par, len, par[n])

\* C14: a call with only max_time (and no caller-supplied tree) returns with an elapsed time of at most
\* max_time, and on a run that cannot restart no tip of the returned tree
\* is further than max_time from the root.
C14_GrownForAtMostMaxTime ==
    (bd_pc = "done" /\ ntax = None /\ max_time # None /\ ~tree_given) =>
        /\ total_time <= max_time
        /\ ~repeat_until_success =>
              \A n \in BDReturnedLeaves : PathLength(parent_node, edge_length, n) <= max_time

(***************************************************************************)
(* Claims about ProtractedSpeciationModel (checked under SpecPSM).         *)
(***************************************************************************)
PSMExtinctionRaised == psm_pc = "TreeSimTotalExtinctionException"

\* C4: generate_sample raises TreeSimTotalExtinctionException only at the
\* end of its first run when retry is off, and only at the end of run
\* max_retries + 1 when retry is on with an integer max_retries, and never
\* when max_retries is None; it never starts a second run with retry off
\* nor a run after run max_retries + 1.
C4_ExtinctionRaisedWhenRetriesRunOut ==
    /\ PSMExtinctionRaised =>
          IF ~is_retry_on_total_extinction THEN num_runs = 1
          ELSE max_retries # None /\ num_runs = max_retries + 1
    /\ ~is_retry_on_total_extinction => num_runs <= 1
    /\ (is_retry_on_total_extinction /\ max_retries # None) => num_runs <= max_retries + 1

C4_Witness ==
    /\ PSMExtinctionRaised
    /\ is_retry_on_total_extinction
    /\ max_retries = MaxMaxRetries
    /\ num_runs = MaxMaxRetries + 1
    /\ num_retries = MaxMaxRetries + 1

\* C6: a run that reaches max_time with a surviving lineage never fails the
\* assertion `seed_node is not None` of _assemble_pruned_tree.
C6_SeedNodeAlwaysFound == psm_pc # "AssertionError"

PrunedTreeNodes == TreeNodes(pruned_tree.parent, pruned_tree.seed)

PrunedTreeLeaves == TreeLeafNodes(pruned_tree.parent, pruned_tree.seed)

PsmTreeLeaves == TreeLeafNodes(psm_parent_node, psm_seed_node)

\* C7: when generate_sample returns, every lineage of the full population
\* is a node of the collapsed pruned tree, and the pruned tree has no more
\* leaves than the PSM tree.
C7_SurvivingFullSpeciesInPrunedTree ==
    psm_pc = "returned" =>
       /\ \A l \in Range(current_full_species_lineages) : l \in PrunedTreeNodes
       /\ Cardinality(PrunedTreeLeaves) <= Cardinality(PsmTreeLeaves)

(***************************************************************************)
(* Claims about uniform_pure_birth_tree (checked under SpecUPB).           *)
(***************************************************************************)
UPBEnded == upb_pc \notin {"call", "loop"}

UPBLeaves == LeafNodesInOrder(upb_parent_node, 1)

UPBLeavesHoldNamespace ==
    /\ Len(UPBLeaves) = Len(upb_taxon_namespace)
    /\ \A i \in DOMAIN UPBLeaves : upb_taxon[UPBLeaves[i]] = upb_taxon_namespace[i]

\* C12 as claimed: for a namespace of any size N, N = 0 and N = 1 included,
\* the call (with a positive birth rate) ends by returning a tree with
\* exactly N leaves, leaf i in leaf order holding taxon i.
C12_EveryNamespaceSize ==
    (UPBEnded /\ upb_birth_rate > 0) => (upb_pc = "returned" /\ UPBLeavesHoldNamespace)

(***************************************************************************)
(* Claims about discrete_birth_death_tree (checked under SpecDBD).         *)
(***************************************************************************)
DBDLeaves == LeafNodesInOrder(dbd_parent_node, dbd_seed_node)

\* C13: a call with a target tip count, no generation limit and no
\* caller-supplied tree returns a tree with exactly ntax leaves.
C13_ReturnedTreeHasTargetLeaves ==
    (dbd_pc = "returned" /\ dbd_ntax # None /\ dbd_max_time = None /\ ~dbd_tree_given)
        => Len(DBDLeaves) = dbd_ntax

(***************************************************************************)
(* Claims about the argument checks of both simulators (SpecArgs).         *)
(***************************************************************************)
BDChecked == bd_pc \notin {"idle", "call"}

DBDChecked == dbd_pc \notin {"idle", "call"}

\* gsa_ntax as the caller gave it: line 112 fills it in when it was None.
GsaNtaxGiven == gsa_ntax # None /\ ~terminate_at_full_tree

\* (a) no ntax, no taxon_namespace, no max_time; (b) gsa_ntax without a
\* target; (c) gsa_ntax below the target.
BDCasesABC ==
    \/ ntax = None /\ max_time = None
    \/ GsaNtaxGiven /\ ntax = None
    \/ GsaNtaxGiven /\ ntax # None /\ gsa_ntax < ntax

DBDCaseA == dbd_ntax = None /\ dbd_taxon_namespace = "absent" /\ dbd_max_time = None

C16_TreeWithForeignNamespace ==
    /\ (BDChecked /\ tree_given /\ taxon_namespace = "other") =>
          /\ bd_pc = "ValueError"
          /\ parent_node = SuppliedParents(Nodes)
          /\ edge_length = SuppliedLengths(Nodes)
          /\ num_nodes = 3
    /\ (DBDChecked /\ dbd_tree_given /\ dbd_taxon_namespace = "other") =>
          /\ dbd_pc = "ValueError"
          /\ dbd_parent_node = SuppliedParents(DbdNodes)
          /\ dbd_edge_length = SuppliedLengths(DbdNodes)
          /\ dbd_num_nodes = 3

C16_Witness ==
    /\ bd_pc = "ValueError"
    /\ tree_given /\ taxon_namespace = "other"
    /\ ~BDCasesABC
    /\ dbd_pc = "ValueError"
    /\ ~DBDCaseA

(***************************************************************************)
(* Claims about fit_pure_birth_model (checked under SpecFit).              *)
(***************************************************************************)
FitDone == fit_pc \in {"returned", "raised"}

AgesMax == SetMax(Range(internal_node_ages))

\* The log-likelihood computation hits a math domain error: the call got
\* as far as the try block and the estimated rate is not positive.
LikelihoodCalculationFails ==
    /\ internal_node_ages # <<>>
    /\ AgesMax > 0
    /\ \A i \in DOMAIN internal_node_ages : internal_node_ages[i] = AgesMax

\* C8: when the likelihood calculation fails, a ValueError is raised with
\* ignore_likelihood_calculation_failure=False, and with the flag True the
\* call succeeds with log_likelihood = -inf.
C8_FailureHandledAsDocumented ==
    (FitDone /\ LikelihoodCalculationFails) =>
        IF ignore_likelihood_calculation_failure
        THEN fit_result.status = "returned" /\ fit_result.log_likelihood = NegInf
        ELSE fit_result.status = "ValueError"

AllAgesPositive == \A i \in DOMAIN internal_node_ages : internal_node_ages[i] > 0

PositiveFiniteFit ==
    /\ fit_result.status = "returned"
    /\ fit_result.birth_rate[1] > 0
    /\ fit_result.birth_rate[2] > 0
    /\ fit_result.log_likelihood.kind = "finite"

\* C10 as claimed: any list of at least two positive ages, tied ages and
\* all-equal ages included, gives birth_rate > 0 and a finite log_likelihood.
C10_AnyTwoPositiveAges ==
    (FitDone /\ Len(internal_node_ages) >= 2 /\ AllAgesPositive) => PositiveFiniteFit

\* C10 amended: at least two positive ages, not all equal to the maximum,
\* give birth_rate > 0 and a finite log_likelihood (ties are allowed).
C10_TwoPositiveAgesNotAllEqual ==
    (/\ FitDone
     /\ Len(internal_node_ages) >= 2
     /\ AllAgesPositive
     /\ \E i \in DOMAIN internal_node_ages : internal_node_ages[i] < AgesMax)
        => PositiveFiniteFit

C10_Witness ==
    /\ fit_pc = "returned"
    /\ AllAgesPositive
    /\ Cardinality({i \in DOMAIN internal_node_ages : internal_node_ages[i] = AgesMax}) >= 2
    /\ \E i \in DOMAIN internal_node_ages : internal_node_ages[i] < AgesMax
    /\ PositiveFiniteFit

\* The orderings in which the caller can pass the same ages.
OrderingsOf(ages) ==
    {[i \in DOMAIN ages |-> ages[f[i]]] :
        f \in {g \in [DOMAIN ages -> DOMAIN ages] :
                  \A i, j \in DOMAIN ages : g[i] = g[j] => i = j}}

\* C11: every call with the same ages has the same outcome, the outcome is
\* the one of every other ordering of the ages, the caller's list is as it
\* was passed, and a returned dictionary has exactly the keys birth_rate
\* and log_likelihood.
C11_PureFunctionOfTheAges ==
    FitDone =>
        /\ \A i \in DOMAIN fit_history : fit_history[i] = fit_history[1]
        /\ \A ages \in OrderingsOf(ages_as_passed) :
              fit_pure_birth_model(ages, ignore_likelihood_calculation_failure) = fit_result
        /\ internal_node_ages = ages_as_passed
        /\ fit_result.status = "returned" =>
              DOMAIN fit_result \ {"status"} = {"birth_rate", "log_likelihood"}

C11_Witness ==
    /\ fit_pc = "returned"
    /\ Len(fit_history) = MaxFitCalls
    /\ Len(internal_node_ages) >= 3
    /\ internal_node_ages[1] < internal_node_ages[2]
    /\ internal_node_ages[3] < internal_node_ages[2]
    /\ fit_result.log_likelihood.kind = "finite"

BDReturnedTree == TreeView(parent_node, edge_length, seed_node)

ExplicitGsaOneAboveTarget == GsaNtaxGiven /\ ntax # None /\ gsa_ntax = ntax + 1

\* C17 as claimed: a returned run with explicit gsa_ntax = target + 1 has
\* recorded exactly one slice and returns the tree that stopping at the
\* first slice returns.
C17_GsaOneAboveTargetIsStopAtSize ==
    (bd_pc = "done" /\ ExplicitGsaOneAboveTarget) =>
        /\ Len(targetted_time_slices) = 1
        /\ BDReturnedTree = stop_at_size_tree

\* C17 amended: stop_at_size_tree is what a run without gsa_ntax returns,
\* and a returned run with explicit gsa_ntax = target + 1 and death_rate = 0
\* has recorded exactly one slice and returns that same tree.
C17_PureBirthGsaOneAboveTargetIsStopAtSize ==
    /\ (bd_pc = "done" /\ terminate_at_full_tree) => BDReturnedTree = stop_at_size_tree
    /\ (bd_pc = "done" /\ ExplicitGsaOneAboveTarget /\ death_rate = 0) =>
          /\ Len(targetted_time_slices) = 1
          /\ BDReturnedTree = stop_at_size_tree

C17_Witness ==
    /\ bd_pc = "done"
    /\ ExplicitGsaOneAboveTarget
    /\ death_rate = 0
    /\ ntax >= 2
    /\ num_nodes > Cardinality(BDReturnedTree.nodes)
    /\ BDReturnedTree = stop_at_size_tree

\* The state in which line 145 is first reached by a run that was given
\* no tree (lines 124-143).
FreshRunState ==
    /\ parent_node = NoParents
    /\ num_nodes = 1
    /\ seed_node = 1
    /\ edge_length[seed_node] = 0
    /\ total_time = 0
    /\ leaf_nodes = <<seed_node>>
    /\ curr_num_leaves = 1
    /\ extinct_tips = <<>>
    /\ targetted_time_slices = <<>>

\* C18: right after a restart the loop is in the state a fresh run starts
\* from: a single-node tree with root edge length zero, total time zero,
\* the root as the one leaf, no extinct tips and no slices.
C18_RestartFromFreshState ==
    (bd_pc = "head" /\ restarted /\ ~tree_given) => FreshRunState

DBDLeafStepTaken == dbd_pc = "loop" /\ dbd_idx \in DOMAIN dbd_leaf_nodes

DBDLoopTested == dbd_pc = "loop" /\ dbd_gens_run' = dbd_gens_run + 1

\* The death of the last lineage leaves the tree as it was, the unit every
\* leaf grows by in a generation apart.
DBDTreeUntouched ==
    /\ dbd_parent_node' = dbd_parent_node
    /\ dbd_seed_node' = dbd_seed_node
    /\ dbd_num_nodes' = dbd_num_nodes
    /\ dbd_edge_length' = [dbd_edge_length EXCEPT ![dbd_seed_node] = @ + 1]

DBDRootDeathStep ==
    (DBDLeafStepTaken /\ dbd_repeat_until_success /\ dbd_last_lineage_died') =>
        (dbd_num_gens' = 0 /\ DBDTreeUntouched)

DBDTestAfterRootDeath ==
    (DBDLoopTested /\ dbd_repeat_until_success /\ dbd_last_lineage_died) =>
        dbd_seen_num_gens'[Len(dbd_seen_num_gens')] = 0

\* C20: with retry enabled, the death of the root as the last lineage sets
\* the generation count to zero and leaves the tree untouched, and the test
\* of the growth loop after that generation sees a generation count of zero.
C20_RootDeathResetsGenerationCount ==
    [][DBDRootDeathStep /\ DBDTestAfterRootDeath]_vars

\* C21: with max_time given, the generations counted by the growth loop
\* plus the generations the closing loop adds never exceed max_time.
C21_ExtensionBoundedByMaxTime ==
    (dbd_max_time # None /\ dbd_pc \in {"extend", "returned"}) =>
        dbd_num_gens + dbd_gens_to_add <= dbd_max_time

PsmMaxTimeGiven == psm_max_time # None /\ psm_max_time > 0

\* The nodes the active lineages currently occupy.
ActiveNodes == {LineageNode(all_lineages, ActiveLineages[i]) : i \in DOMAIN ActiveLineages}

\* The step that leaves the loop with the clock at max_time.
PSMTimeUpTaken == psm_pc = "loop" /\ psm_pc' = "assemble"

PSMNoEventApplied ==
    UNCHANGED <<current_full_species_lineages, current_incipient_species_lineages,
                all_lineages, current_lineage_index, current_node_index,
                psm_parent_node, psm_seed_node>>

PSMEdgesExtendedByRemainder ==
    \A n \in PsmNodes :
        psm_edge_length'[n] =
            IF n \in ActiveNodes THEN psm_edge_length[n] + (psm_max_time - current_time)
            ELSE psm_edge_length[n]

PSMClockWithinMaxTime ==
    /\ PsmMaxTimeGiven => current_time <= psm_max_time
    /\ (PsmMaxTimeGiven /\ psm_pc \in {"assemble", "returned"}) => current_time = psm_max_time
    /\ ~PsmMaxTimeGiven =>
          psm_pc \in {"call", "loop", "TreeSimTotalExtinctionException",
                      "ZeroDivisionError", "IndexError"}

PSMClockStep ==
    /\ psm_pc = "loop" => current_time' >= current_time
    /\ PSMTimeUpTaken =>
          /\ PsmMaxTimeGiven
          /\ current_time' = psm_max_time
          /\ PSMNoEventApplied
          /\ PSMEdgesExtendedByRemainder

BDLiveAtTermination ==
    IF selected_slice # 0 THEN SliceHeads(targetted_time_slices[selected_slice])
    ELSE Range(leaf_nodes)

\* C23: the returned tree has no unifurcating node, none of the tips still
\* recorded as extinct, and its leaves are exactly the leaves that were
\* alive at termination (of the selected slice on the GSA path).
C23_NoExtinctTipNoUnifurcation ==
    bd_pc = "done" =>
       /\ \A n \in BDReturnedTree.nodes : Cardinality(Children(parent_node, n)) # 1
       /\ Range(extinct_tips) \cap BDReturnedTree.nodes = {}
       /\ TreeLeafNodes(parent_node, seed_node) = BDLiveAtTermination

\* Two tips died and the second was pruned by cutting off its parent,
\* which had no other descendant left, next to a lineage that lived.
C23_Witness ==
    /\ bd_pc = "done"
    /\ Len(extinct_tips) >= 2
    /\ \E y \in Range(extinct_tips) :
          /\ parent_node[y] # 0
          /\ parent_node[y] \notin BDReturnedTree.nodes
          /\ parent_node[parent_node[y]] = 0
    /\ TreeLeafNodes(parent_node, seed_node) = Range(leaf_nodes)

\* A lineage that is a full species by the process itself: the initial
\* full lineage, or a lineage whose conversion was recorded.
GenuineFullSpecies(l) ==
    \/ all_lineages[l].parent_lineage = None /\ ~is_initial_species_incipient
    \/ all_lineages[l].speciation_completion_time # None

\* C24: every leaf of the returned pruned tree is a lineage that is alive
\* at the end of the run and a genuine full species.
C24_PrunedTipsAreLiveFullSpecies ==
    psm_pc = "returned" =>
       \A l \in PrunedTreeLeaves :
          /\ all_lineages[l].extinction_time = None
          /\ l \in Range(current_full_species_lineages)
          /\ GenuineFullSpecies(l)

\* Two tips under an initial incipient lineage that the assembly marked as
\* a full species.
C24_Witness ==
    /\ psm_pc = "returned"
    /\ Cardinality(PrunedTreeLeaves) >= 2
    /\ is_initial_species_incipient
    /\ all_lineages[1].is_full_species
    /\ ~GenuineFullSpecies(1)
    /\ 1 \in PrunedTreeNodes

\* The pruned tree as it stands when the ages are assigned, before its
\* unifurcations are collapsed.
AssembledNodes == TreeNodes(pruned_tree.parent_as_assembled, pruned_tree.seed_as_assembled)

AssembledChildren(l) == Children(pruned_tree.parent_as_assembled, l)

EarliestChildInitiation(l) ==
    SetMin({all_lineages[ch].speciation_initiation_time : ch \in AssembledChildren(l)})

\* C25: in the pruned tree the age of a leaf is zero and the age of an
\* internal node is current_time minus the earliest speciation initiation
\* among its children's lineages; no parent is younger than its child, and
\* no edge length of the returned tree is negative.
C25_PrunedAgesAndLengths ==
    psm_pc = "returned" =>
       /\ \A l \in AssembledNodes :
             pruned_tree.age[l] =
                IF AssembledChildren(l) = {} THEN 0
                ELSE current_time - EarliestChildInitiation(l)
       /\ \A l \in AssembledNodes :
             pruned_tree.parent_as_assembled[l] # 0 =>
                pruned_tree.age[pruned_tree.parent_as_assembled[l]] >= pruned_tree.age[l]
       /\ \A l \in PrunedTreeNodes :
             /\ pruned_tree.length[l] >= 0
             /\ pruned_tree.parent[l] # 0 =>
                   /\ pruned_tree.age[pruned_tree.parent[l]] >= pruned_tree.age[l]
                   /\ pruned_tree.length[l] =
                         pruned_tree.age[pruned_tree.parent[l]] - pruned_tree.age[l]

\* A root with two tips that began their speciation at different times.
C25_Witness ==
    /\ psm_pc = "returned"
    /\ Cardinality(PrunedTreeLeaves) = 2
    /\ \E a, b \in PrunedTreeLeaves :
          /\ all_lineages[a].speciation_initiation_time
                < all_lineages[b].speciation_initiation_time
          /\ pruned_tree.parent[a] = pruned_tree.seed
          /\ pruned_tree.parent[b] = pruned_tree.seed
          /\ pruned_tree.length[a] = pruned_tree.age[pruned_tree.seed]
          /\ pruned_tree.length[a] > 0

\* A step of the loop that creates a lineage: a birth event.
PSMBirthTaken == psm_pc = "loop" /\ current_lineage_index' # current_lineage_index

PSMBirthEffect ==
    LET new == current_lineage_index + 1
        born == all_lineages'[new]
        parent_lineage == born.parent_lineage
        parent == LineageNode(all_lineages, parent_lineage)
        c1 == current_node_index + 1
        c2 == current_node_index + 2
    IN /\ current_lineage_index' = new
       /\ DOMAIN all_lineages' = 1..new
       /\ born.index = new
       /\ ~born.is_full_species
       /\ born.speciation_initiation_time = current_time'
       /\ born.speciation_completion_time = None
       /\ born.extinction_time = None
       /\ parent_lineage \in Range(ActiveLineages)
       /\ born.psm_tree_node_history = <<c2>>
       /\ all_lineages'[parent_lineage] =
             [all_lineages[parent_lineage] EXCEPT
                 !.psm_tree_node_history = Append(@, c1)]
       /\ \A l \in DOMAIN all_lineages :
             l # parent_lineage => all_lineages'[l] = all_lineages[l]
       /\ current_node_index' = c2
       /\ psm_parent_node' = [psm_parent_node EXCEPT ![c1] = parent, ![c2] = parent]
       /\ psm_edge_length'[c1] = 0
       /\ psm_edge_length'[c2] = 0
       /\ psm_seed_node' = psm_seed_node
       /\ current_full_species_lineages' = current_full_species_lineages
       /\ current_incipient_species_lineages' =
             Append(current_incipient_species_lineages, new)

\* C26: a birth event creates exactly one lineage, incipient, begun at the
\* current time under the chosen parent, and hangs two new zero-length
\* nodes under the parent's current node, one for the parent lineage and
\* one for the new lineage; the full population stays and the incipient
\* population gains the new lineage.
C26_BirthCreatesOneIncipientLineage == [][PSMBirthTaken => PSMBirthEffect]_vars

\* The third lineage was born from the second, itself still incipient.
C26_Witness ==
    /\ psm_pc = "loop"
    /\ Len(all_lineages) = 3
    /\ all_lineages[3].parent_lineage = 2
    /\ all_lineages[2].speciation_completion_time = None
    /\ Len(all_lineages[2].psm_tree_node_history) = 2
    /\ current_incipient_species_lineages = <<2, 3>>

\* A step of the loop that adds a lineage to the full population: a
\* conversion event.
PSMConversionTaken ==
    psm_pc = "loop" /\ Len(current_full_species_lineages') > Len(current_full_species_lineages)

PSMConversionEffect ==
    \E l \in Range(current_incipient_species_lineages) :
       /\ l \notin Range(current_full_species_lineages)
       /\ ~all_lineages[l].is_full_species
       /\ current_incipient_species_lineages' =
             SelectSeq(current_incipient_species_lineages, LAMBDA x : x # l)
       /\ current_full_species_lineages' = Append(current_full_species_lineages, l)
       /\ all_lineages' =
             [all_lineages EXCEPT ![l].is_full_species = TRUE,
                                  ![l].speciation_completion_time = current_time']
       /\ Len(ActiveLineages') = Len(ActiveLineages)
       /\ UNCHANGED <<psm_parent_node, psm_seed_node, current_node_index,
                      current_lineage_index>>

\* C27: a conversion moves exactly one lineage from the incipient to the
\* full population, sets is_full_species and speciation_completion_time =
\* current_time on it, and changes nothing else: no node, no other field of
\* the lineage, no other lineage, not the number of active lineages.
C27_ConversionInPlace == [][PSMConversionTaken => PSMConversionEffect]_vars

\* The second lineage has just been converted next to the first.
C27_Witness ==
    /\ psm_pc = "loop"
    /\ current_full_species_lineages = <<1, 2>>
    /\ all_lineages[2].is_full_species
    /\ all_lineages[2].speciation_completion_time = current_time
    /\ all_lineages[2].speciation_initiation_time < current_time
    /\ all_lineages[2].parent_lineage = 1

\* A step of the loop that takes a lineage out of the active ones: an
\* extinction event.
PSMExtinctionTaken == psm_pc = "loop" /\ Len(ActiveLineages') < Len(ActiveLineages)

PSMExtinctionEffect ==
    \E sp \in Range(ActiveLineages) :
       LET in_full == sp \in Range(current_full_species_lineages)
           in_incipient == sp \in Range(current_incipient_species_lineages)
           without(s) == SelectSeq(s, LAMBDA x : x # sp)
       IN /\ in_full # in_incipient
          /\ current_full_species_lineages' =
                IF in_full THEN without(current_full_species_lineages)
                ELSE current_full_species_lineages
          /\ current_incipient_species_lineages' =
                IF in_incipient THEN without(current_incipient_species_lineages)
                ELSE current_incipient_species_lineages
          /\ Len(ActiveLineages') = Len(ActiveLineages) - 1
          /\ all_lineages' = [all_lineages EXCEPT ![sp].extinction_time = current_time']
          /\ IF ActiveLineages' = <<>>
             THEN psm_pc' \in {"TreeSimTotalExtinctionException", "call"}
             ELSE /\ psm_pc' = "loop"
                  /\ LineageNode(all_lineages, sp)
                        \notin TreeNodes(psm_parent_node', psm_seed_node')
                  /\ \A i \in DOMAIN ActiveLineages' :
                        LineageNode(all_lineages', ActiveLineages'[i])
                           \in TreeLeafNodes(psm_parent_node', psm_seed_node')

PSMSomeLineageActive == psm_pc = "loop" => ActiveLineages # <<>>

\* C28: whenever the loop draws a waiting time some lineage is active; an
\* extinction takes exactly one lineage out of its own population, records
\* its extinction_time and prunes its node, and when it empties both
\* populations the run ends in TreeSimTotalExtinctionException in that step.
C28_ExtinctionAndActiveLineages ==
    []PSMSomeLineageActive /\ [][PSMExtinctionTaken => PSMExtinctionEffect]_vars

\* One of two active lineages has died and its node is gone from the tree.
C28_Witness ==
    /\ psm_pc = "loop"
    /\ Len(all_lineages) = 2
    /\ Len(ActiveLineages) = 1
    /\ \E sp \in DOMAIN all_lineages :
          /\ all_lineages[sp].extinction_time = current_time
          /\ LineageNode(all_lineages, sp) \notin TreeNodes(psm_parent_node, psm_seed_node)

\* C29: no run of the process ends in rng.choice on an empty population,
\* that is, no event type is selected while its population is empty.
C29_NeverChoiceFromEmpty == psm_pc # "IndexError"

\* At every step boundary the lineages of the run carry the indices 1, 2, 3,
\* ... in order of creation and each has a node.
PSMLineagesIndexedInOrder ==
    /\ current_lineage_index = Len(all_lineages)
    /\ \A i \in DOMAIN all_lineages :
          /\ all_lineages[i].index = i
          /\ all_lineages[i].psm_tree_node_history # <<>>

IsPrefix(s, t) == Len(s) <= Len(t) /\ \A i \in DOMAIN s : s[i] = t[i]

\* A step inside one run: every lineage is still listed under its index and
\* its node history has only been appended to.
PSMLineagesOnlyGrow ==
    num_runs' = num_runs =>
       /\ Len(all_lineages') >= Len(all_lineages)
       /\ \A i \in DOMAIN all_lineages :
             /\ all_lineages'[i].index = all_lineages[i].index
             /\ IsPrefix(all_lineages[i].psm_tree_node_history,
                         all_lineages'[i].psm_tree_node_history)

\* C30: within a run the lineage indices are 1, 2, 3, ... in order of
\* creation, the list of all lineages only grows, and every lineage's node
\* history is non-empty and append-only.
C30_LineagesIndexedAndRetained ==
    []PSMLineagesIndexedInOrder /\ [][PSMLineagesOnlyGrow]_vars

\* A run in which the first lineage has moved to a second node and an
\* extinct lineage is retained in the list of all lineages.
C30_Witness ==
    /\ psm_pc = "loop"
    /\ Len(all_lineages) >= 2
    /\ Len(all_lineages[1].psm_tree_node_history) >= 2
    /\ \E i \in DOMAIN all_lineages :
          /\ all_lineages[i].extinction_time # None
          /\ i \notin Range(ActiveLineages)

\* The leaf a step of the generation evaluates, and what the step did to it.
DBDEvaluated == dbd_leaf_nodes[dbd_idx]

DBDSplit(nd) ==
    /\ Children(dbd_parent_node, nd) = {}
    /\ Children(dbd_parent_node', nd) = {dbd_num_nodes + 1, dbd_num_nodes + 2}
    /\ dbd_edge_length'[dbd_num_nodes + 1] = 0
    /\ dbd_edge_length'[dbd_num_nodes + 2] = 0
    /\ dbd_edge_length'[nd] = dbd_edge_length[nd] + 1
    /\ nd \in TreeNodes(dbd_parent_node', dbd_seed_node')

DBDRemoved(nd) == nd \notin TreeNodes(dbd_parent_node', dbd_seed_node')

DBDSurvivesUnchanged(nd) ==
    /\ nd \in TreeLeafNodes(dbd_parent_node', dbd_seed_node')
    /\ dbd_parent_node' = dbd_parent_node
    /\ dbd_seed_node' = dbd_seed_node
    /\ dbd_edge_length' = [dbd_edge_length EXCEPT ![nd] = @ + 1]

DBDDeathDraw(u) ==
    dbd_birth_rate < u /\ u < dbd_birth_rate + dbd_death_rate

\* The leaves of the generation still to be evaluated stay leaves of the tree.
DBDOthersStayLeaves(nd) ==
    \A i \in DOMAIN dbd_leaf_nodes :
       (i > dbd_idx /\ dbd_leaf_nodes[i] # nd) =>
          dbd_leaf_nodes[i] \in TreeLeafNodes(dbd_parent_node', dbd_seed_node')

DBDLeafEvaluation ==
    DBDLeafStepTaken =>
       LET nd == DBDEvaluated
           u == dbd_u'
       IN /\ dbd_idx' = dbd_idx + 1
          /\ dbd_leaf_nodes' = dbd_leaf_nodes
          /\ nd \in TreeLeafNodes(dbd_parent_node, dbd_seed_node)
          /\ DBDSplit(nd) <=> u < dbd_birth_rate
          /\ DBDRemoved(nd) <=> (DBDDeathDraw(u) /\ nd # dbd_seed_node)
          /\ (~DBDSplit(nd) /\ ~DBDRemoved(nd)) => DBDSurvivesUnchanged(nd)
          /\ DBDOthersStayLeaves(nd)

\* The same, with a death draw removing every leaf, the seed node included.
DBDLeafEvaluationAnyLeafRemoved ==
    DBDLeafStepTaken =>
       LET nd == DBDEvaluated
           u == dbd_u'
       IN /\ DBDSplit(nd) <=> u < dbd_birth_rate
          /\ DBDRemoved(nd) <=> DBDDeathDraw(u)
          /\ (~DBDSplit(nd) /\ ~DBDRemoved(nd)) => DBDSurvivesUnchanged(nd)

\* The generation is counted only when every leaf of its list was evaluated.
DBDGenerationWhole ==
    (dbd_pc = "loop" /\ dbd_gens_run' # dbd_gens_run) =>
       dbd_idx = Len(dbd_leaf_nodes) + 1

\* Inside a generation the list holds each leaf once, the leaves still to
\* be evaluated are leaves of the tree, and a leaf that is not in the list
\* (born in this generation) has length zero.
DBDGenerationList ==
    dbd_pc = "loop" =>
       /\ \A i, j \in DOMAIN dbd_leaf_nodes :
             i # j => dbd_leaf_nodes[i] # dbd_leaf_nodes[j]
       /\ \A i \in DOMAIN dbd_leaf_nodes :
             i >= dbd_idx =>
                dbd_leaf_nodes[i] \in TreeLeafNodes(dbd_parent_node, dbd_seed_node)
       /\ \A n \in TreeLeafNodes(dbd_parent_node, dbd_seed_node) :
             n \notin Range(dbd_leaf_nodes) => dbd_edge_length[n] = 0

\* C31 (as amended): every leaf of the generation's list is evaluated once;
\* its edge grows by one and it splits into two zero-length children iff
\* u < birth rate, is removed iff birth rate < u < birth rate + death rate
\* and it is not the seed node, and otherwise stays as it is; children born
\* in the generation are neither extended nor evaluated in it.
C31_LeafEvaluatedOncePerGeneration ==
    /\ []DBDGenerationList
    /\ [][DBDLeafEvaluation /\ DBDGenerationWhole]_vars

\* C31 (as stated): a leaf is removed iff birth rate < u < birth rate +
\* death rate, whichever leaf it is.
C31_EveryLeafRemovedOnDeathDraw == [][DBDLeafEvaluationAnyLeafRemoved]_vars

\* A generation in which one leaf was removed and another split: the list
\* is exhausted, one of its leaves is gone and two leaves are newborn.
C31_Witness ==
    /\ dbd_pc = "loop"
    /\ dbd_idx = Len(dbd_leaf_nodes) + 1
    /\ \E n \in Range(dbd_leaf_nodes) :
          n \notin TreeNodes(dbd_parent_node, dbd_seed_node)
    /\ \E n \in TreeLeafNodes(dbd_parent_node, dbd_seed_node) :
          n \notin Range(dbd_leaf_nodes)

\* A pass of the loop body that draws a waiting time.
BDLoopBodyTaken == bd_pc = "body" /\ bd_pc' # "ZeroDivisionError"

\* The live tip count equals the target.
BDAtTargetSize == ntax # None /\ Len(leaf_nodes) = ntax

BDSliceOfStep ==
    [waiting_time |-> waiting_time',
     edge_and_start_length |->
        [i \in DOMAIN leaf_nodes |-> <<leaf_nodes[i], edge_length[leaf_nodes[i]]>>]]

BDSlicesStep ==
    IF BDLoopBodyTaken /\ BDAtTargetSize
    THEN /\ targetted_time_slices' = Append(targetted_time_slices, BDSliceOfStep)
         /\ waiting_time' \in WaitingTimes
         /\ total_time' \in {total_time, total_time + waiting_time'}
    ELSE targetted_time_slices' = targetted_time_slices

BDSlicesHaveTargetEdges ==
    \A i \in DOMAIN targetted_time_slices :
       /\ Len(targetted_time_slices[i].edge_and_start_length) = ntax
       /\ Cardinality(SliceHeads(targetted_time_slices[i])) = ntax

\* C32: a slice is appended exactly at each pass of the loop at the target
\* size, with the waiting time of that pass and the length of every live
\* leaf before the waiting time is added; every slice has target edges and
\* no other step changes the list.
C32_SlicesAppendOnly ==
    []BDSlicesHaveTargetEdges /\ [][BDSlicesStep]_vars

\* Two different slices are recorded, the second after a death and a birth.
C32_Witness ==
    /\ bd_pc = "head"
    /\ Len(targetted_time_slices) = 2
    /\ targetted_time_slices[1] # targetted_time_slices[2]
    /\ extinct_tips # <<>>
    /\ \E i \in DOMAIN targetted_time_slices[2].edge_and_start_length :
          targetted_time_slices[2].edge_and_start_length[i][2] > 0

\* The slice the selection chose, and the nodes that existed when it was
\* recorded.
BDSelectedSlice == targetted_time_slices[selected_slice]

BDNodesAtSelectedSlice == 1..slice_num_nodes[selected_slice]

\* Right after the selection (lines 253-268).
BDRestoredToSlice ==
    (bd_pc = "postprocess" /\ selected_slice # 0) =>
       /\ \A h \in SliceHeads(BDSelectedSlice) :
             /\ h \in TreeLeafNodes(parent_node, seed_node)
             /\ edge_length[h] =
                   SliceLength(BDSelectedSlice, h) + BDSelectedSlice.waiting_time
             /\ h \notin Range(extinct_tips)
       /\ TreeNodes(parent_node, seed_node) \subseteq BDNodesAtSelectedSlice

\* In the tree returned.
BDReturnedIsSlice ==
    (bd_pc = "done" /\ selected_slice # 0) =>
       /\ TreeLeafNodes(parent_node, seed_node) = SliceHeads(BDSelectedSlice)
       /\ TreeNodes(parent_node, seed_node) \subseteq BDNodesAtSelectedSlice

\* C33: after the selection every edge of the selected slice ends in a leaf
\* of length snapshot + duration, no node born after the slice is in the
\* tree, and no node of the slice is pruned as an extinct tip: the leaves of
\* the returned tree are the nodes of the slice.
C33_GrowthAfterSliceDiscarded == BDRestoredToSlice /\ BDReturnedIsSlice

\* A tree returned from a slice of two leaves after which a node was born
\* and a leaf of the slice had stopped being live.
C33_Witness ==
    /\ bd_pc = "done"
    /\ selected_slice # 0
    /\ num_nodes > slice_num_nodes[selected_slice]
    /\ \E h \in SliceHeads(BDSelectedSlice) : h \notin Range(leaf_nodes)
    /\ Cardinality(SliceHeads(BDSelectedSlice)) >= 2

\* The closed form, from the list as passed: k ages, maximum m, c of them
\* equal to m.
ClosedFormM(ages) == SetMax(Range(ages))

ClosedFormC(ages) == Cardinality({i \in DOMAIN ages : ages[i] = ClosedFormM(ages)})

ClosedFormNumerator(ages) == (Len(ages) + 1) - (1 + ClosedFormC(ages))

ClosedFormDenominator(ages) ==
    (1 + ClosedFormC(ages)) * ClosedFormM(ages)
       + SumSeq(SelectSeq(ages, LAMBDA a : a < ClosedFormM(ages)))

\* Two fractions <<numerator, denominator>> are the same number.
SameFraction(p, q) == p[1] * q[2] = q[1] * p[2]

FitIsClosedForm(ages, result) ==
    (ages # <<>> /\ ClosedFormDenominator(ages) # 0) =>
       /\ result.status \in {"returned", "ValueError"}
       /\ SameFraction(result.birth_rate,
                       <<ClosedFormNumerator(ages), ClosedFormDenominator(ages)>>)
       /\ result.log_likelihood.kind = "finite" =>
             /\ result.log_likelihood.lo = 1 + ClosedFormC(ages)
             /\ result.log_likelihood.up = Len(ages) + 1

\* C34: the birth rate of every call is (up - lo) / (lo * m + sum of the
\* ages below m) with lo = 1 + c and up = k + 1; for [5, 3, 1] it is 2/14.
C34_BirthRateClosedForm ==
    /\ fit_pc \in {"returned", "raised"} =>
          FitIsClosedForm(internal_node_ages, fit_result)
    /\ fit_pure_birth_model(<<5, 3, 1>>, FALSE).birth_rate = <<2, 14>>

\* A call with the maximum age given twice and one age below it.
C34_Witness ==
    /\ fit_pc = "returned"
    /\ internal_node_ages = <<3, 1, 3>>
    /\ fit_result.birth_rate = <<1, 10>>

\* C35: in a call with a target tip count the selection always finds a
\* slice: `assert(selected_slice is not None)` never fails.
C35_SelectionFindsSlice == ntax # None => bd_pc # "AssertionError"

\* While the tree grows the list of live leaves holds each live leaf once,
\* every one a leaf of the tree that is not recorded extinct; curr_num_leaves
\* is its length and the rate vector has two entries for each.
BDLiveLeavesCounted ==
    bd_pc \in {"head", "body"} =>
       /\ curr_num_leaves = Len(leaf_nodes)
       /\ Cardinality(Range(leaf_nodes)) = Len(leaf_nodes)
       /\ Range(leaf_nodes) \subseteq TreeLeafNodes(parent_node, seed_node)
       /\ Range(leaf_nodes) \cap Range(extinct_tips) = {}
       /\ Len(EventRates(leaf_nodes, birth_rate, death_rate)) = 2 * Len(leaf_nodes)

\* A pass of the loop body that applies its event.
BDEventApplied == BDLoopBodyTaken /\ (leaf_nodes' # leaf_nodes \/ restarted')

\* The node of the event: the live leaf that is a live leaf no more.
BDSelectedNodes == Range(leaf_nodes) \ Range(leaf_nodes')

BDEventEffect ==
    /\ curr_num_leaves' = Len(leaf_nodes')
    /\ IF num_nodes' > num_nodes
       THEN \* birth
            /\ curr_num_leaves' = curr_num_leaves + 1
            /\ \E nd \in Range(leaf_nodes) :
                  /\ BDSelectedNodes = {nd}
                  /\ Children(parent_node', nd) = {num_nodes + 1, num_nodes + 2}
                  /\ Range(leaf_nodes') =
                        (Range(leaf_nodes) \ {nd}) \cup {num_nodes + 1, num_nodes + 2}
       ELSE IF restarted'
       THEN \* death of the last live leaf, then lines 230-235
            /\ Len(leaf_nodes) = 1
            /\ leaf_nodes' = <<seed_node>>
            /\ curr_num_leaves' = 1
       ELSE \* death
            /\ curr_num_leaves' = curr_num_leaves - 1
            /\ \E nd \in Range(leaf_nodes) :
                  /\ BDSelectedNodes = {nd}
                  /\ Range(leaf_nodes') = Range(leaf_nodes) \ {nd}
                  /\ Children(parent_node', nd) = {}

\* C36: curr_num_leaves is the number of live leaves after every event, the
\* rate vector has two entries per live leaf, the node of an event is a
\* live leaf, a birth adds one live leaf and a death takes one away.
C36_LiveLeafBookkeeping ==
    []BDLiveLeavesCounted /\ [][BDEventApplied => BDEventEffect]_vars

\* After a birth and a death: three nodes, one live leaf, one extinct tip
\* that is still a leaf of the tree.
C36_Witness ==
    /\ bd_pc = "head"
    /\ num_nodes = 3
    /\ curr_num_leaves = 1
    /\ Len(extinct_tips) = 1
    /\ extinct_tips[1] \in TreeLeafNodes(parent_node, seed_node)
    /\ ~tree_given

\* The state a first run starts from: one lineage created at time 0 on
\* the only node of a new tree.
PSMFreshRunStarted ==
    /\ current_time' = 0
    /\ current_lineage_index' = 1
    /\ current_node_index' = 1
    /\ all_lineages' =
          <<[index |-> 1,
             is_full_species |-> ~is_initial_species_incipient,
             parent_lineage |-> None,
             speciation_initiation_time |-> 0,
             speciation_completion_time |-> None,
             extinction_time |-> None,
             psm_tree_node_history |-> <<1>>]>>
    /\ ActiveLineages' = <<1>>
    /\ (current_full_species_lineages' = <<1>>) <=> ~is_initial_species_incipient
    /\ psm_seed_node' = 1
    /\ TreeNodes(psm_parent_node', psm_seed_node') = {1}
    /\ \A n \in PsmNodes : psm_edge_length'[n] = 0
    /\ pruned_tree' = NoPrunedTree

\* Nothing in a run is older than the run: no lineage, node or time beyond
\* what the run itself has counted.
PSMNothingFromEarlierRuns ==
    psm_pc \in {"loop", "assemble", "returned"} =>
       /\ Len(all_lineages) = current_lineage_index
       /\ TreeNodes(psm_parent_node, psm_seed_node) \subseteq 1..current_node_index
       /\ \A n \in TreeNodes(psm_parent_node, psm_seed_node) :
             psm_edge_length[n] <= current_time
       /\ \A l \in DOMAIN all_lineages :
             /\ all_lineages[l].speciation_initiation_time <= current_time
             /\ Range(all_lineages[l].psm_tree_node_history) \subseteq 1..current_node_index

\* C37: every run, the first and every retry, starts from the same clean
\* state, and nothing of an earlier run is seen in a later run or in the
\* returned trees.
C37_RetriedRunStartsClean ==
    /\ []PSMNothingFromEarlierRuns
    /\ [][num_runs' # num_runs => PSMFreshRunStarted]_vars

\* A retry has just started after a run that ended in total extinction.
C37_Witness ==
    /\ psm_pc = "loop"
    /\ num_runs >= 2
    /\ num_retries >= 1
    /\ current_time = 0

\* The two populations agree with the status of their lineages.
PSMPopulationsMatchStatus ==
    /\ Range(current_full_species_lineages)
          \cap Range(current_incipient_species_lineages) = {}
    /\ \A l \in Range(current_full_species_lineages) : all_lineages[l].is_full_species
    /\ \A l \in Range(current_incipient_species_lineages) : ~all_lineages[l].is_full_species
    /\ \A l \in DOMAIN all_lineages :
          (all_lineages[l].parent_lineage # None /\ all_lineages[l].is_full_species) =>
             all_lineages[l].speciation_completion_time # None

\* C38: at every step boundary of a run and at return from generate_sample
\* the populations are disjoint and agree with is_full_species, and every
\* non-initial full species has a speciation_completion_time.
C38_PopulationsMatchStatus ==
    psm_pc \in {"loop", "assemble", "returned"} => PSMPopulationsMatchStatus

UPBTreeLeaves == TreeLeafNodes(upb_parent_node, 1)

\* Every leaf is as far from the root as the waiting times drawn add up to.
UPBUltrametric ==
    upb_pc # "call" =>
       \A leaf \in UPBTreeLeaves :
          PathLength(upb_parent_node, upb_edge_length, leaf) = upb_waiting_times

\* A pass of the loop adds one leaf, with two children of length zero; no
\* step changes the edge of a node that has children.
UPBStep ==
    /\ upb_num_nodes' > upb_num_nodes /\ upb_pc = "loop" =>
          /\ Cardinality(TreeLeafNodes(upb_parent_node', 1)) = Cardinality(UPBTreeLeaves) + 1
          /\ \E nd \in UPBTreeLeaves :
                /\ Children(upb_parent_node', nd) = {upb_num_nodes + 1, upb_num_nodes + 2}
                /\ \A c \in Children(upb_parent_node', nd) : upb_edge_length'[c] = 0
    /\ \A n \in TreeNodes(upb_parent_node, 1) :
          Children(upb_parent_node, n) # {} =>
             /\ upb_edge_length'[n] = upb_edge_length[n]
             /\ Children(upb_parent_node', n) = Children(upb_parent_node, n)

\* C39: after every step and at return the tree is ultrametric, with the
\* sum of the waiting times as its height; each pass adds one leaf, new
\* children have length zero and internal edges are never changed.
C39_UltrametricGrowth == []UPBUltrametric /\ [][UPBStep]_vars

\* A returned tree of three leaves at two different depths.
C39_Witness ==
    /\ upb_pc = "returned"
    /\ Cardinality(UPBTreeLeaves) = 3
    /\ \E a, b \in UPBTreeLeaves : upb_edge_length[a] # upb_edge_length[b]

\* C40: empirical_cdf(values, v) is the proportion of the values that are
\* <= v, the values equal to v counted.
C40_ProportionAtMostV ==
    cdf_pc = "returned" =>
       cdf_result = <<Cardinality({i \in DOMAIN cdf_values : cdf_values[i] <= cdf_v}),
                      Len(cdf_values)>>

====
